---- MODULE Spec2Model ----
(***************************************************************************)
(* The Intcode engine of advent-of-code-2019: the day 9 Tape (growable     *)
(* memory, three parameter modes, suspend/resume run), as a state machine  *)
(* whose steps are the iterations of Tape::run's loop.                     *)
(*                                                                         *)
(* Memory is a sequence; address a is element a + 1.                       *)
(***************************************************************************)
EXTENDS Integers, Sequences, FiniteSets, TLC

VARIABLES
    mem,        \* Tape.mem
    pc,         \* Tape.pc
    relbase,    \* Tape.relbase
    output,     \* Tape.output (front is the head of the sequence)
    input,      \* the iterator handed to the run call in progress
    status,     \* where the caller is: "ready", "running", "Poll", "Halt", "fault"
    fault,      \* the kind of fault that aborted run, "none" otherwise
    prog,       \* history: the program the tape was built from
    fed,        \* history: all input values supplied to run calls before Halt
    steps,      \* history: loop iterations started since construction
    calls,      \* history: run calls made
    polls,      \* history: run calls that returned Poll
    popped,     \* history: what the pop_output calls returned (day 7)
    iolog,      \* history: the invocations of the Io closure (days 11, 13)
    heap,       \* the Tape objects alive, by reference (a reference is an index)
    amps,       \* the caller's engines: references into heap, with their settings
    signal,     \* find_signal_feedback_loop: signal
    last_signal, \* find_signal_feedback_loop: last_signal
    given,      \* history: the input values handed to each engine's run calls
    lastpop,    \* history: what each engine's latest pop_output returned
    rounds,     \* history: passes of the for loop over amps completed
    reactions,  \* day 14: Input.reactions
    low,        \* day 14, part2: low
    high,       \* day 14, part2: high
    cursor,     \* where the calling function is
    result,     \* what the calling function returned
    robot,      \* day 11: the locals the closure of robot captures
    password    \* day 4: the password handed to validate2

\* The state of the callers of days 7 and 14.
ampVars == <<heap, amps, signal, last_signal, given, lastpop, rounds>>

fuelVars == <<reactions, low, high>>

callVars == <<cursor, result, robot, password>>

\* The state of the one tape the other specifications drive.
tapeVars == <<mem, pc, relbase, output, input, status, fault, prog, fed, steps, calls,
              polls, popped, iolog>>

vars == <<tapeVars, ampVars, fuelVars, callVars>>

\* No tape is being driven.
NoTape ==
    /\ mem = <<>>
    /\ pc = 0
    /\ relbase = 0
    /\ output = <<>>
    /\ input = <<>>
    /\ status = "ready"
    /\ fault = "none"
    /\ prog = <<>>
    /\ fed = <<>>
    /\ steps = 0
    /\ calls = 0
    /\ polls = 0
    /\ popped = <<>>
    /\ iolog = <<>>

\* No amplifier chain is being driven.
NoAmps ==
    /\ heap = <<>>
    /\ amps = <<>>
    /\ signal = 0
    /\ last_signal = 0
    /\ given = <<>>
    /\ lastpop = <<>>
    /\ rounds = 0

\* No fuel search is under way.
NoFuel ==
    /\ reactions = <<>>
    /\ low = 0
    /\ high = 0

\* The value of a call that has not returned.
NoResult == <<"none">>

\* No robot is painting.
NoRobot == robot = <<>>

\* No password is being validated.
NoPassword == password = 0

\* Only the tape is driven: no calling function of days 7, 11 or 14 is active.
NoCaller ==
    /\ NoAmps
    /\ NoFuel
    /\ NoRobot
    /\ NoPassword
    /\ cursor = "none"
    /\ result = 0

----------------------------------------------------------------------------
(* Bounds of the model.                                                    *)

MaxSteps == 90
MaxCalls == 3
MaxBatch == 2
\* How far beyond the end of memory, and below address 0, accesses are probed.
MaxProbe == 3

----------------------------------------------------------------------------
(* Rust integer division and remainder truncate toward zero.               *)

TruncDiv(a, b) == IF a >= 0 THEN a \div b ELSE -((-a) \div b)

\* TruncRem, were the remainder taken as the mathematical modulus (never
\* negative).
TruncRemFloors(a, b) == a % b

TruncRem(a, b) == a - b * TruncDiv(a, b)

----------------------------------------------------------------------------
(* Decoder.                                                                *)

\* ParamModeOf, were 0 Immediate and 1 Position.
ParamModeOfSwapped(value) ==
    CASE value = 0 -> "Immediate"
      [] value = 1 -> "Position"
      [] value = 2 -> "Relative"
      [] OTHER -> "invalid"

ParamModeOf(value) ==
    CASE value = 0 -> "Position"
      [] value = 1 -> "Immediate"
      [] value = 2 -> "Relative"
      [] OTHER -> "invalid"

\* OpName, were opcode 0 (the content of untouched memory) taken as Halt.
OpNameZeroHalts(opcode) ==
    CASE opcode = 1 -> "Add"
      [] opcode = 2 -> "Mul"
      [] opcode = 3 -> "Input"
      [] opcode = 4 -> "Output"
      [] opcode = 5 -> "JumpIfTrue"
      [] opcode = 6 -> "JumpIfFalse"
      [] opcode = 7 -> "LessThan"
      [] opcode = 8 -> "Equals"
      [] opcode = 9 -> "AdjustRelBase"
      [] opcode = 99 -> "Eof"
      [] opcode = 0 -> "Eof"
      [] OTHER -> "invalid"

OpName(opcode) ==
    CASE opcode = 1 -> "Add"
      [] opcode = 2 -> "Mul"
      [] opcode = 3 -> "Input"
      [] opcode = 4 -> "Output"
      [] opcode = 5 -> "JumpIfTrue"
      [] opcode = 6 -> "JumpIfFalse"
      [] opcode = 7 -> "LessThan"
      [] opcode = 8 -> "Equals"
      [] opcode = 9 -> "AdjustRelBase"
      [] opcode = 99 -> "Eof"
      [] OTHER -> "invalid"

\* OpCodeOf, were only the modes an operation uses converted (those of its
\* declared parameters), the others ignored.
OpCodeOfDeclaredModes(value) ==
    LET opcode == TruncRem(value, 100)
        arity  == IF opcode \in {1, 2, 7, 8} THEN 3
                  ELSE IF opcode \in {5, 6} THEN 2
                  ELSE IF opcode \in {3, 4, 9} THEN 1 ELSE 0
        param3 == IF arity < 3 THEN "Position"
                  ELSE ParamModeOf(TruncRem(TruncDiv(value, 10000), 10))
        param2 == IF arity < 2 THEN "Position"
                  ELSE ParamModeOf(TruncRem(TruncDiv(value, 1000), 10))
        param1 == IF arity < 1 THEN "Position"
                  ELSE ParamModeOf(TruncRem(TruncDiv(value, 100), 10))
        bad    == [err |-> "none", op |-> "invalid", p1 |-> "invalid",
                   p2 |-> "invalid", p3 |-> "invalid"]
    IN  IF param3 = "invalid" \/ param2 = "invalid" \/ param1 = "invalid"
        THEN [bad EXCEPT !.err = "param_mode"]
        ELSE IF OpName(opcode) = "invalid"
        THEN [bad EXCEPT !.err = "opcode"]
        ELSE [err |-> "none", op |-> OpName(opcode), p1 |-> param1,
              p2 |-> param2, p3 |-> param3]

\* OpCodeOf, were the third mode taken from the whole quotient value / 10000
\* (without % 10).
OpCodeOfWholeQuotient(value) ==
    LET param3 == ParamModeOf(TruncDiv(value, 10000))
        param2 == ParamModeOf(TruncRem(TruncDiv(value, 1000), 10))
        param1 == ParamModeOf(TruncRem(TruncDiv(value, 100), 10))
        opcode == TruncRem(value, 100)
        bad    == [err |-> "none", op |-> "invalid", p1 |-> "invalid",
                   p2 |-> "invalid", p3 |-> "invalid"]
    IN  IF param3 = "invalid" \/ param2 = "invalid" \/ param1 = "invalid"
        THEN [bad EXCEPT !.err = "param_mode"]
        ELSE IF OpName(opcode) = "invalid"
        THEN [bad EXCEPT !.err = "opcode"]
        ELSE [err |-> "none", op |-> OpName(opcode), p1 |-> param1,
              p2 |-> param2, p3 |-> param3]

\* OpCodeOf, were the opcode matched before the modes are converted.
OpCodeOfOpcodeFirst(value) ==
    LET param3 == ParamModeOf(TruncRem(TruncDiv(value, 10000), 10))
        param2 == ParamModeOf(TruncRem(TruncDiv(value, 1000), 10))
        param1 == ParamModeOf(TruncRem(TruncDiv(value, 100), 10))
        opcode == TruncRem(value, 100)
        bad    == [err |-> "none", op |-> "invalid", p1 |-> "invalid",
                   p2 |-> "invalid", p3 |-> "invalid"]
    IN  IF OpName(opcode) = "invalid"
        THEN [bad EXCEPT !.err = "opcode"]
        ELSE IF param3 = "invalid" \/ param2 = "invalid" \/ param1 = "invalid"
        THEN [bad EXCEPT !.err = "param_mode"]
        ELSE [err |-> "none", op |-> OpName(opcode), p1 |-> param1,
              p2 |-> param2, p3 |-> param3]

\* OpCode::new / From<Integer> for OpCode: the three modes are converted
\* first (third, second, first), then the opcode is matched.
OpCodeOf(value) ==
    LET param3 == ParamModeOf(TruncRem(TruncDiv(value, 10000), 10))
        param2 == ParamModeOf(TruncRem(TruncDiv(value, 1000), 10))
        param1 == ParamModeOf(TruncRem(TruncDiv(value, 100), 10))
        opcode == TruncRem(value, 100)
        bad    == [err |-> "none", op |-> "invalid", p1 |-> "invalid",
                   p2 |-> "invalid", p3 |-> "invalid"]
    IN  IF param3 = "invalid" \/ param2 = "invalid" \/ param1 = "invalid"
        THEN [bad EXCEPT !.err = "param_mode"]
        ELSE IF OpName(opcode) = "invalid"
        THEN [bad EXCEPT !.err = "opcode"]
        ELSE [err |-> "none", op |-> OpName(opcode), p1 |-> param1,
              p2 |-> param2, p3 |-> param3]

\* The value the panic of a failed decode reports ("invalid ParamMode value:
\* {value}", "invalid OpCode value: {value}"): the conversions run in the
\* order of the let statements, the first that fails panics.
PanicValue(value) ==
    LET digit3 == TruncRem(TruncDiv(value, 10000), 10)
        digit2 == TruncRem(TruncDiv(value, 1000), 10)
        digit1 == TruncRem(TruncDiv(value, 100), 10)
    IN  IF ParamModeOf(digit3) = "invalid" THEN digit3
        ELSE IF ParamModeOf(digit2) = "invalid" THEN digit2
        ELSE IF ParamModeOf(digit1) = "invalid" THEN digit1
        ELSE value

----------------------------------------------------------------------------
(* Memory.  Every access returns the memory after the access (a read may   *)
(* grow it), the value read and the fault raised.                          *)

\* Resize, were the vector grown to twice the length needed.
ResizeDoubles(m, pos) ==
    IF pos >= Len(m) THEN m \o [i \in 1..(2 * (pos + 1) - Len(m)) |-> 0] ELSE m

\* Vec::resize(pos + 1, 0) when pos is at or beyond the length.
Resize(m, pos) ==
    IF pos >= Len(m) THEN m \o [i \in 1..(pos + 1 - Len(m)) |-> 0] ELSE m

\* Get, were memory fixed as in the engines before day 9.
GetPanicsBeyondEnd(m, pos) ==
    IF pos < 0 \/ pos >= Len(m)
    THEN [mem |-> m, val |-> 0, err |-> "address"]
    ELSE [mem |-> m, val |-> m[pos + 1], err |-> "none"]

Get(m, pos) ==
    IF pos < 0
    THEN [mem |-> m, val |-> 0, err |-> "address"]
    ELSE [mem |-> Resize(m, pos), val |-> Resize(m, pos)[pos + 1], err |-> "none"]

\* Pget, were Relative mode to leave relbase out.
PgetIgnoresRelBase(m, rb, pos, param) ==
    LET first == Get(m, pos) IN
    IF param = "Immediate" \/ first.err # "none"
    THEN first
    ELSE Get(first.mem, first.val)

\* Pget, were an Immediate parameter dereferenced like a Position one.
PgetDerefsImmediate(m, rb, pos, param) ==
    LET first == Get(m, pos) IN
    IF first.err # "none"
    THEN first
    ELSE IF param = "Relative"
    THEN Get(first.mem, rb + first.val)
    ELSE Get(first.mem, first.val)

Pget(m, rb, pos, param) ==
    LET first == Get(m, pos) IN
    IF param = "Immediate" \/ first.err # "none"
    THEN first
    ELSE IF param = "Position"
    THEN Get(first.mem, first.val)
    ELSE Get(first.mem, rb + first.val)

\* Set, were a write to a negative address dropped without a fault.
SetDropsNegative(m, pos, value) ==
    IF pos < 0
    THEN [mem |-> m, val |-> 0, err |-> "none"]
    ELSE [mem |-> [Resize(m, pos) EXCEPT ![pos + 1] = value], val |-> 0,
          err |-> "none"]

Set(m, pos, value) ==
    IF pos < 0
    THEN [mem |-> m, val |-> 0, err |-> "address"]
    ELSE [mem |-> [Resize(m, pos) EXCEPT ![pos + 1] = value], val |-> 0,
          err |-> "none"]

\* Dst, were the write target read like a read-role parameter (a Position
\* target dereferenced a second time).
DstDerefsTwice(m, rb, pos, param) ==
    LET first == Get(m, pos) IN
    IF first.err # "none" \/ param = "Immediate"
    THEN first
    ELSE IF param = "Position"
    THEN Get(first.mem, first.val)
    ELSE Get(first.mem, rb + first.val)

\* The `let dst = match param { ... }` of Add, Mul, Input, LessThan, Equals:
\* the address is read, never dereferenced, and not range-checked here.
Dst(m, rb, pos, param) ==
    LET first == Get(m, pos) IN
    IF first.err # "none" \/ param # "Relative"
    THEN first
    ELSE [first EXCEPT !.val = rb + first.val]

----------------------------------------------------------------------------
(* One iteration of the loop of Tape::run, on a tape record t and the      *)
(* remaining input inp.                                                    *)

Tape(m, p, rb, out) == [mem |-> m, pc |-> p, relbase |-> rb, output |-> out]

\* The iteration went through: the loop continues.
Cont(m, p, rb, out, inp) ==
    [mem |-> m, pc |-> p, relbase |-> rb, output |-> out, input |-> inp,
     status |-> "running", fault |-> "none"]

\* run returns st ("Poll" or "Halt"), or is aborted by fault f (st = "fault").
Ret(t, m, inp, st, f) ==
    [mem |-> m, pc |-> t.pc, relbase |-> t.relbase, output |-> t.output,
     input |-> inp, status |-> st, fault |-> f]

IAdd(lhs, rhs) == lhs + rhs

IMul(lhs, rhs) == lhs * rhs

\* ILessThan, were the comparison not strict.
ILessOrEqual(lhs, rhs) == IF lhs <= rhs THEN 1 ELSE 0

ILessThan(lhs, rhs) == IF lhs < rhs THEN 1 ELSE 0

IEquals(lhs, rhs) == IF lhs = rhs THEN 1 ELSE 0

\* `let value = ...` / `let result = ...` of the four three-parameter arms.
BinaryValue(op, lhs, rhs) ==
    CASE op = "Add" -> IAdd(lhs, rhs)
      [] op = "Mul" -> IMul(lhs, rhs)
      [] op = "LessThan" -> ILessThan(lhs, rhs)
      [] op = "Equals" -> IEquals(lhs, rhs)

\* ExecBinary, were the result built in place: lhs stored at dst, then rhs
\* read and combined into it.
ExecBinaryInPlace(t, m, inp, d) ==
    LET lhs == Pget(m, t.relbase, t.pc + 1, d.p1) IN
    IF lhs.err # "none" THEN Ret(t, lhs.mem, inp, "fault", lhs.err) ELSE
    LET dst == Dst(lhs.mem, t.relbase, t.pc + 3, d.p3) IN
    IF dst.err # "none" THEN Ret(t, dst.mem, inp, "fault", dst.err) ELSE
    LET first == Set(dst.mem, dst.val, lhs.val) IN
    IF first.err # "none" THEN Ret(t, first.mem, inp, "fault", first.err) ELSE
    LET rhs == Pget(first.mem, t.relbase, t.pc + 2, d.p2) IN
    IF rhs.err # "none" THEN Ret(t, rhs.mem, inp, "fault", rhs.err) ELSE
    LET wr == Set(rhs.mem, dst.val, BinaryValue(d.op, lhs.val, rhs.val)) IN
    Cont(wr.mem, t.pc + 4, t.relbase, t.output, inp)

\* Add, Mul, LessThan, Equals: lhs, rhs, dst, set, pc += 4.
ExecBinary(t, m, inp, d) ==
    LET lhs == Pget(m, t.relbase, t.pc + 1, d.p1) IN
    IF lhs.err # "none" THEN Ret(t, lhs.mem, inp, "fault", lhs.err) ELSE
    LET rhs == Pget(lhs.mem, t.relbase, t.pc + 2, d.p2) IN
    IF rhs.err # "none" THEN Ret(t, rhs.mem, inp, "fault", rhs.err) ELSE
    LET dst == Dst(rhs.mem, t.relbase, t.pc + 3, d.p3) IN
    IF dst.err # "none" THEN Ret(t, dst.mem, inp, "fault", dst.err) ELSE
    LET wr == Set(dst.mem, dst.val, BinaryValue(d.op, lhs.val, rhs.val)) IN
    IF wr.err # "none" THEN Ret(t, wr.mem, inp, "fault", wr.err) ELSE
    Cont(wr.mem, t.pc + 4, t.relbase, t.output, inp)

\* ExecInput, were pc advanced before the input is looked for.
ExecInputAdvancesOnPoll(t, m, inp, d) ==
    LET dst == Dst(m, t.relbase, t.pc + 1, d.p1) IN
    IF dst.err # "none" THEN Ret(t, dst.mem, inp, "fault", dst.err) ELSE
    IF inp = <<>> THEN Ret([t EXCEPT !.pc = t.pc + 2], dst.mem, inp, "Poll", "none") ELSE
    LET wr == Set(dst.mem, dst.val, Head(inp)) IN
    IF wr.err # "none" THEN Ret(t, wr.mem, Tail(inp), "fault", wr.err) ELSE
    Cont(wr.mem, t.pc + 2, t.relbase, t.output, Tail(inp))

\* ExecInput, were exhausted input unwrapped (a panic) as in run-to-completion.
ExecInputFaultsWhenExhausted(t, m, inp, d) ==
    LET dst == Dst(m, t.relbase, t.pc + 1, d.p1) IN
    IF dst.err # "none" THEN Ret(t, dst.mem, inp, "fault", dst.err) ELSE
    IF inp = <<>> THEN Ret(t, dst.mem, inp, "fault", "input") ELSE
    LET wr == Set(dst.mem, dst.val, Head(inp)) IN
    IF wr.err # "none" THEN Ret(t, wr.mem, Tail(inp), "fault", wr.err) ELSE
    Cont(wr.mem, t.pc + 2, t.relbase, t.output, Tail(inp))

\* ExecInput, were the last value of the batch taken first.
ExecInputTakesLast(t, m, inp, d) ==
    LET dst == Dst(m, t.relbase, t.pc + 1, d.p1) IN
    IF dst.err # "none" THEN Ret(t, dst.mem, inp, "fault", dst.err) ELSE
    IF inp = <<>> THEN Ret(t, dst.mem, inp, "Poll", "none") ELSE
    LET wr == Set(dst.mem, dst.val, inp[Len(inp)]) IN
    IF wr.err # "none"
    THEN Ret(t, wr.mem, SubSeq(inp, 1, Len(inp) - 1), "fault", wr.err)
    ELSE Cont(wr.mem, t.pc + 2, t.relbase, t.output, SubSeq(inp, 1, Len(inp) - 1))

\* ExecInput, were the write target range-checked when it is computed, before
\* the input is looked for.
ExecInputChecksTargetFirst(t, m, inp, d) ==
    LET dst == Dst(m, t.relbase, t.pc + 1, d.p1) IN
    IF dst.err # "none" THEN Ret(t, dst.mem, inp, "fault", dst.err) ELSE
    IF dst.val < 0 THEN Ret(t, dst.mem, inp, "fault", "address") ELSE
    IF inp = <<>> THEN Ret(t, dst.mem, inp, "Poll", "none") ELSE
    LET wr == Set(dst.mem, dst.val, Head(inp)) IN
    IF wr.err # "none" THEN Ret(t, wr.mem, Tail(inp), "fault", wr.err) ELSE
    Cont(wr.mem, t.pc + 2, t.relbase, t.output, Tail(inp))

ExecInput(t, m, inp, d) ==
    LET dst == Dst(m, t.relbase, t.pc + 1, d.p1) IN
    IF dst.err # "none" THEN Ret(t, dst.mem, inp, "fault", dst.err) ELSE
    IF inp = <<>> THEN Ret(t, dst.mem, inp, "Poll", "none") ELSE
    LET wr == Set(dst.mem, dst.val, Head(inp)) IN
    IF wr.err # "none" THEN Ret(t, wr.mem, Tail(inp), "fault", wr.err) ELSE
    Cont(wr.mem, t.pc + 2, t.relbase, t.output, Tail(inp))

\* ExecOutput, were run to hand each output to its caller at once.
ExecOutputYields(t, m, inp, d) ==
    LET src == Pget(m, t.relbase, t.pc + 1, d.p1) IN
    IF src.err # "none" THEN Ret(t, src.mem, inp, "fault", src.err) ELSE
    [Cont(src.mem, t.pc + 2, t.relbase, Append(t.output, src.val), inp)
        EXCEPT !.status = "Poll"]

ExecOutput(t, m, inp, d) ==
    LET src == Pget(m, t.relbase, t.pc + 1, d.p1) IN
    IF src.err # "none" THEN Ret(t, src.mem, inp, "fault", src.err) ELSE
    Cont(src.mem, t.pc + 2, t.relbase, Append(t.output, src.val), inp)

\* ExecJump, were the second parameter an offset from pc and not the new pc.
ExecJumpByOffset(t, m, inp, d, whenTrue) ==
    LET cnd == Pget(m, t.relbase, t.pc + 1, d.p1) IN
    IF cnd.err # "none" THEN Ret(t, cnd.mem, inp, "fault", cnd.err) ELSE
    LET val == Pget(cnd.mem, t.relbase, t.pc + 2, d.p2) IN
    IF val.err # "none" THEN Ret(t, val.mem, inp, "fault", val.err) ELSE
    Cont(val.mem,
         IF (cnd.val # 0) = whenTrue THEN t.pc + val.val ELSE t.pc + 3,
         t.relbase, t.output, inp)

\* ExecJump, were a target outside 0..len-1 refused when the jump is taken.
ExecJumpChecksTarget(t, m, inp, d, whenTrue) ==
    LET cnd == Pget(m, t.relbase, t.pc + 1, d.p1) IN
    IF cnd.err # "none" THEN Ret(t, cnd.mem, inp, "fault", cnd.err) ELSE
    LET val == Pget(cnd.mem, t.relbase, t.pc + 2, d.p2) IN
    IF val.err # "none" THEN Ret(t, val.mem, inp, "fault", val.err) ELSE
    IF (cnd.val # 0) = whenTrue /\ (val.val < 0 \/ val.val >= Len(val.mem))
    THEN Ret(t, val.mem, inp, "fault", "address") ELSE
    Cont(val.mem,
         IF (cnd.val # 0) = whenTrue THEN val.val ELSE t.pc + 3,
         t.relbase, t.output, inp)

\* JumpIfTrue (taken when cnd # 0) and JumpIfFalse (taken when cnd = 0).
ExecJump(t, m, inp, d, whenTrue) ==
    LET cnd == Pget(m, t.relbase, t.pc + 1, d.p1) IN
    IF cnd.err # "none" THEN Ret(t, cnd.mem, inp, "fault", cnd.err) ELSE
    LET val == Pget(cnd.mem, t.relbase, t.pc + 2, d.p2) IN
    IF val.err # "none" THEN Ret(t, val.mem, inp, "fault", val.err) ELSE
    Cont(val.mem,
         IF (cnd.val # 0) = whenTrue THEN val.val ELSE t.pc + 3,
         t.relbase, t.output, inp)

\* ExecAdjustRelBase, were relbase set to the parameter and not moved by it.
ExecAdjustRelBaseSets(t, m, inp, d) ==
    LET adj == Pget(m, t.relbase, t.pc + 1, d.p1) IN
    IF adj.err # "none" THEN Ret(t, adj.mem, inp, "fault", adj.err) ELSE
    Cont(adj.mem, t.pc + 2, adj.val, t.output, inp)

ExecAdjustRelBase(t, m, inp, d) ==
    LET adj == Pget(m, t.relbase, t.pc + 1, d.p1) IN
    IF adj.err # "none" THEN Ret(t, adj.mem, inp, "fault", adj.err) ELSE
    Cont(adj.mem, t.pc + 2, t.relbase + adj.val, t.output, inp)

\* ExecEof, were pc moved past the Halt word as past any other instruction.
ExecEofAdvances(t, m, inp) == Ret([t EXCEPT !.pc = t.pc + 1], m, inp, "Halt", "none")

ExecEof(t, m, inp) == Ret(t, m, inp, "Halt", "none")

\* StepTape, were a word that does not decode skipped instead of aborting
\* the run.
StepTapeSkipsInvalid(t, inp) ==
    LET word == Get(t.mem, t.pc) IN
    IF word.err # "none" THEN Ret(t, word.mem, inp, "fault", word.err) ELSE
    LET d == OpCodeOf(word.val) IN
    IF d.err # "none" THEN Cont(word.mem, t.pc + 1, t.relbase, t.output, inp) ELSE
    CASE d.op = "Add" -> ExecBinary(t, word.mem, inp, d)
      [] d.op = "Mul" -> ExecBinary(t, word.mem, inp, d)
      [] d.op = "Input" -> ExecInput(t, word.mem, inp, d)
      [] d.op = "Output" -> ExecOutput(t, word.mem, inp, d)
      [] d.op = "JumpIfTrue" -> ExecJump(t, word.mem, inp, d, TRUE)
      [] d.op = "JumpIfFalse" -> ExecJump(t, word.mem, inp, d, FALSE)
      [] d.op = "LessThan" -> ExecBinary(t, word.mem, inp, d)
      [] d.op = "Equals" -> ExecBinary(t, word.mem, inp, d)
      [] d.op = "AdjustRelBase" -> ExecAdjustRelBase(t, word.mem, inp, d)
      [] d.op = "Eof" -> ExecEof(t, word.mem, inp)

\* The body of `loop { ... }`: fetch, decode, dispatch.
StepTape(t, inp) ==
    LET word == Get(t.mem, t.pc) IN
    IF word.err # "none" THEN Ret(t, word.mem, inp, "fault", word.err) ELSE
    LET d == OpCodeOf(word.val) IN
    IF d.err # "none" THEN Ret(t, word.mem, inp, "fault", d.err) ELSE
    CASE d.op = "Add" -> ExecBinary(t, word.mem, inp, d)
      [] d.op = "Mul" -> ExecBinary(t, word.mem, inp, d)
      [] d.op = "Input" -> ExecInput(t, word.mem, inp, d)
      [] d.op = "Output" -> ExecOutput(t, word.mem, inp, d)
      [] d.op = "JumpIfTrue" -> ExecJump(t, word.mem, inp, d, TRUE)
      [] d.op = "JumpIfFalse" -> ExecJump(t, word.mem, inp, d, FALSE)
      [] d.op = "LessThan" -> ExecBinary(t, word.mem, inp, d)
      [] d.op = "Equals" -> ExecBinary(t, word.mem, inp, d)
      [] d.op = "AdjustRelBase" -> ExecAdjustRelBase(t, word.mem, inp, d)
      [] d.op = "Eof" -> ExecEof(t, word.mem, inp)

\* Tape::run as a whole: the loop, to its return (or until fuel iterations
\* were made).
RECURSIVE RunLoop(_, _, _)
RunLoop(t, inp, fuel) ==
    IF fuel = 0 THEN Cont(t.mem, t.pc, t.relbase, t.output, inp) ELSE
    LET r == StepTape(t, inp) IN
    IF r.status = "running"
    THEN RunLoop(Tape(r.mem, r.pc, r.relbase, r.output), r.input, fuel - 1)
    ELSE r

Run(t, inp, fuel) ==
    IF t.mem = <<>> THEN Ret(t, t.mem, inp, "Halt", "none") ELSE RunLoop(t, inp, fuel)

\* Tape::from_str: the parsed words, pc = 0, relbase = 0, no output.
FromStr(words) == Tape(words, 0, 0, <<>>)

----------------------------------------------------------------------------
(* The programs the model loads.                                           *)

\* day09 tests::test_part1_ex1.
Quine == <<109, 1, 204, -1, 1001, 100, 1, 100, 1008, 100, 16, 101, 1006, 101, 0, 99>>

\* Two inputs, one output: out = in1 + in2.
AddTwoInputs == <<3, 11, 3, 12, 1, 11, 12, 13, 4, 13, 99, 0, 0, 0>>

\* Two inputs stored and read back relative to a moved base: out = in1 * in2.
MulTwoInputsRel == <<109, 20, 203, 0, 109, 1, 203, 0, 22202, -1, 0, 1, 204, 1, 99>>

\* Writes 7 beyond the end of the program and reads it back.
WriteBeyond == <<1101, 3, 4, 20, 4, 20, 99>>

\* Reads beyond the end of the program, in each mode that dereferences.
ReadBeyond == <<4, 10, 109, 7, 204, 30, 99>>

\* Input whose write target is relbase - 3 < 0.
InputNegTarget == <<109, -3, 203, 0, 99>>

Catalog ==
    { Quine, AddTwoInputs, MulTwoInputsRel, WriteBeyond, ReadBeyond,
      InputNegTarget,
      <<3, 0, 4, 0, 99>>,
      <<3, 9, 8, 9, 10, 9, 4, 9, 99, -1, 8>>,
      <<3, 9, 7, 9, 10, 9, 4, 9, 99, -1, 8>>,
      <<3, 3, 1108, -1, 8, 3, 4, 3, 99>>,
      <<3, 3, 1107, -1, 8, 3, 4, 3, 99>>,
      <<3, 12, 6, 12, 15, 1, 13, 14, 13, 4, 13, 99, -1, 0, 1, 9>>,
      <<3, 3, 1105, -1, 9, 1101, 0, 0, 12, 4, 12, 99, 1>>,
      <<1002, 4, 3, 4, 33>>,
      <<1101, 100, -1, 4, 0>>,
      <<1, 1, 1, 4, 99, 5, 6, 0, 99>>,
      <<109, 5, 203, 0, 204, 0, 99>>,
      <<109, 2, 21101, 5, 6, 10, 22202, 10, 10, 11, 204, 11, 99>>,
      <<1105, 1, 0>>,
      <<109, 1, 1105, 1, 0>>,
      <<3, 0, 1105, 1, 0>>,
      <<104, 5, 3, 0, 104, 6, 3, 1, 99>>,
      <<104, 9, 203>>,
      <<0>>, <<5>>, <<10>>, <<98>>, <<100>>, <<1101, 1, 1, 0>>,
      <<104, 1, 104, 2>>,
      <<300>>, <<30000>>, <<30099>>, <<3004, 0, 99>>, <<399>>, <<901, 0, 0, 0>>,
      <<-1>>, <<-99>>, <<-100>>, <<-20099>>, <<100099>>, <<1200004, 0, 99>>,
      <<1105, 1, -1>>, <<1106, 0, -7>>, <<4, -1, 99>>, <<109, -5, 204, 0, 99>>,
      <<1101, 1, 1, -2, 99>>, <<3, -1, 99>>, <<21101, 1, 1, -1, 99>>,
      <<7, -1, 0, 0, 99>>, <<8, 0, -4, 0, 99>>, <<9, -2, 99>>,
      <<2105, 1, -3>>, <<1005, -1, 0>> }

\* One instruction word of every operation in every combination of valid
\* modes, over a few operand triples, followed by Halt.
GenModes == 0..2

GenOps == 1..9

GenOperands == { <<0, 0, 0>>, <<2, 1, 6>>, <<-1, 3, 5>> }

GenWord(op, m1, m2, m3) == op + 100 * m1 + 1000 * m2 + 10000 * m3

Generated ==
    { <<GenWord(op, m[1], m[2], m[3]), a[1], a[2], a[3], 99>> :
        op \in GenOps, m \in GenModes \X GenModes \X GenModes, a \in GenOperands }

Programs == Catalog \cup Generated

InputValues == {0, 8}

Batches == UNION { [1..n -> InputValues] : n \in 0..MaxBatch }

----------------------------------------------------------------------------
(* The state machine.                                                      *)

Cur == Tape(mem, pc, relbase, output)

\* What the next iteration of the loop fetches and decodes.
Fetched == Get(mem, pc)

Decoded == OpCodeOf(Fetched.val)

NextOp ==
    IF Fetched.err # "none" \/ Decoded.err # "none" THEN "invalid" ELSE Decoded.op

Init ==
    /\ prog \in Programs
    /\ mem = FromStr(prog).mem
    /\ pc = FromStr(prog).pc
    /\ relbase = FromStr(prog).relbase
    /\ output = FromStr(prog).output
    /\ input = <<>>
    /\ status = "ready"
    /\ fault = "none"
    /\ fed = <<>>
    /\ steps = 0
    /\ calls = 0
    /\ polls = 0
    /\ popped = <<>>
    /\ iolog = <<>>
    /\ NoCaller

\* RunCall, were run to restart the program instead of resuming it.
RunCallRestarts(batch) ==
    /\ status \in {"ready", "Poll", "Halt"}
    /\ calls < MaxCalls
    /\ input' = batch
    /\ status' = IF mem = <<>> THEN "Halt" ELSE "running"
    /\ fed' = IF status = "Halt" THEN fed ELSE fed \o batch
    /\ calls' = calls + 1
    /\ pc' = 0
    /\ UNCHANGED <<mem, relbase, output, fault, prog, steps, polls, popped, iolog, ampVars, fuelVars, callVars>>

\* A call of run with a batch of input: `if self.empty() { return Halt }`,
\* then the loop is entered.
RunCall(batch) ==
    /\ status \in {"ready", "Poll", "Halt"}
    /\ calls < MaxCalls
    /\ input' = batch
    /\ status' = IF mem = <<>> THEN "Halt" ELSE "running"
    /\ fed' = IF status = "Halt" THEN fed ELSE fed \o batch
    /\ calls' = calls + 1
    /\ UNCHANGED <<mem, pc, relbase, output, fault, prog, steps, polls, popped, iolog, ampVars, fuelVars, callVars>>

\* The state after one iteration of the loop with outcome r.
Commit(r) ==
    /\ mem' = r.mem
    /\ pc' = r.pc
    /\ relbase' = r.relbase
    /\ output' = r.output
    \* the iterator is dropped when run returns
    /\ input' = IF r.status = "running" THEN r.input ELSE <<>>
    /\ status' = r.status
    /\ fault' = r.fault
    /\ polls' = IF r.status = "Poll" THEN polls + 1 ELSE polls
    /\ steps' = steps + 1
    /\ UNCHANGED <<prog, fed, calls, popped, iolog, ampVars, fuelVars, callVars>>

\* The loop is about to fetch operation op.
Fetching(op) == status = "running" /\ steps < MaxSteps /\ NextOp = op

\* One iteration of the loop, by the operation it fetches.
DoAdd == Fetching("Add") /\ Commit(StepTape(Cur, input))

DoMul == Fetching("Mul") /\ Commit(StepTape(Cur, input))

DoInput == Fetching("Input") /\ Commit(StepTape(Cur, input))

DoOutput == Fetching("Output") /\ Commit(StepTape(Cur, input))

DoJumpIfTrue == Fetching("JumpIfTrue") /\ Commit(StepTape(Cur, input))

DoJumpIfFalse == Fetching("JumpIfFalse") /\ Commit(StepTape(Cur, input))

DoLessThan == Fetching("LessThan") /\ Commit(StepTape(Cur, input))

DoEquals == Fetching("Equals") /\ Commit(StepTape(Cur, input))

DoAdjustRelBase == Fetching("AdjustRelBase") /\ Commit(StepTape(Cur, input))

DoEof == Fetching("Eof") /\ Commit(StepTape(Cur, input))

\* The fetch or the decoding fails.
DoAbort == Fetching("invalid") /\ Commit(StepTape(Cur, input))

Next ==
    \/ \E batch \in Batches : RunCall(batch)
    \/ DoAdd
    \/ DoMul
    \/ DoInput
    \/ DoOutput
    \/ DoJumpIfTrue
    \/ DoJumpIfFalse
    \/ DoLessThan
    \/ DoEquals
    \/ DoAdjustRelBase
    \/ DoEof
    \/ DoAbort

Spec == Init /\ [][Next]_vars

----------------------------------------------------------------------------
(* The decoder on its own: tapes of one word, run with no input.  The      *)
(* cells the word's parameters name lie beyond the word and read as 0.     *)

MaxWord == 30099

DecodeWords ==
    (0..MaxWord)
        \cup { 100099, 122201, 1200004, 90001, 33333, 99999,
                -1, -3, -99, -100, -101, -1101, -20099, -30099 }

\* tests::test_tape: the tape is built and run with no input.
InitDecode ==
    /\ prog \in { <<w>> : w \in DecodeWords }
    /\ mem = FromStr(prog).mem
    /\ pc = FromStr(prog).pc
    /\ relbase = FromStr(prog).relbase
    /\ output = FromStr(prog).output
    /\ input = <<>>
    /\ status = "running"
    /\ fault = "none"
    /\ fed = <<>>
    /\ steps = 0
    /\ calls = 1
    /\ polls = 0
    /\ popped = <<>>
    /\ iolog = <<>>
    /\ NoCaller

NextDecode ==
    \/ DoAdd
    \/ DoMul
    \/ DoInput
    \/ DoOutput
    \/ DoJumpIfTrue
    \/ DoJumpIfFalse
    \/ DoLessThan
    \/ DoEquals
    \/ DoAdjustRelBase
    \/ DoEof
    \/ DoAbort

SpecDecode == InitDecode /\ [][NextDecode]_vars

----------------------------------------------------------------------------
(* The decoder on negative words and on words of more than five digits.    *)
(* The word is followed by three operands 1, so that no parameter reads    *)
(* the instruction word itself.                                            *)

NegativeWords == ((-MaxWord)..(-1)) \cup { -100099, -2147400099 }

\* The digits above the ten-thousands place.
HighParts == { 1, 10000 }

HighWords == { h * 100000 + v : h \in HighParts, v \in 0..MaxWord }

WordProgram(w) == <<w, 1, 1, 1>>

InitWords ==
    /\ prog \in { WordProgram(w) : w \in NegativeWords \cup HighWords }
    /\ mem = FromStr(prog).mem
    /\ pc = FromStr(prog).pc
    /\ relbase = FromStr(prog).relbase
    /\ output = FromStr(prog).output
    /\ input = <<>>
    /\ status = "running"
    /\ fault = "none"
    /\ fed = <<>>
    /\ steps = 0
    /\ calls = 1
    /\ polls = 0
    /\ popped = <<>>
    /\ iolog = <<>>
    /\ NoCaller

SpecWords == InitWords /\ [][NextDecode]_vars

----------------------------------------------------------------------------
(* Claims.                                                                 *)

Returned == status \in {"Poll", "Halt", "fault"}

\* C1: whenever run has returned, the tape (status, memory, pc, relbase,
\* output) is the one a single run call on the freshly loaded program, given
\* all the input batches supplied so far as one sequence, ends with.
C1_BatchesAsOneRun ==
    Returned =>
        LET w == Run(FromStr(prog), fed, MaxSteps + 1) IN
            /\ w.status = status
            /\ w.fault = fault
            /\ w.mem = mem
            /\ w.pc = pc
            /\ w.relbase = relbase
            /\ w.output = output

\* A run suspended with a moved relbase, resumed and halted with the product
\* of the two inputs that were supplied in different calls.
C1_Witness ==
    /\ prog = MulTwoInputsRel
    /\ status = "Halt"
    /\ polls >= 1
    /\ fed = <<8, 8>>
    /\ output = <<64>>

----------------------------------------------------------------------------
(* Day 2: gravity_assist_program, the first engine.  Memory is a fixed     *)
(* Vec<usize>, the whole word is the opcode, every operand is an address,  *)
(* pc is a local of the function.  The variables mem, pc, status, fault,   *)
(* prog and steps hold its state; "done" is the function having returned.  *)

Day02OpCodeOf(value) ==
    CASE value = 1 -> "Add"
      [] value = 2 -> "Mul"
      [] value = 99 -> "Eof"
      [] OTHER -> "invalid"

\* Tape::get: Vec::get(pos).expect(..) panics outside 0..len-1.
Day02Get(m, pos) ==
    IF pos < Len(m)
    THEN [val |-> m[pos + 1], err |-> "none"]
    ELSE [val |-> 0, err |-> "address"]

\* Tape::set: Vec::get_mut(pos).expect(..) panics outside 0..len-1.
Day02Set(m, pos, value) ==
    IF pos < Len(m)
    THEN [mem |-> [m EXCEPT ![pos + 1] = value], err |-> "none"]
    ELSE [mem |-> m, err |-> "address"]

Day02Result(op, lhs, rhs) == IF op = "Add" THEN lhs + rhs ELSE lhs * rhs

Day02Out(m, p, st, f) == [mem |-> m, pc |-> p, status |-> st, fault |-> f]

\* Day02Arith, were the result stored through the destination cell (at
\* mem[mem[pc+3]] instead of mem[pc+3]).
Day02ArithDerefsDst(m, p, op) ==
    LET lhs_addr == Day02Get(m, p + 1) IN
    IF lhs_addr.err # "none" THEN Day02Out(m, p, "fault", "address") ELSE
    LET lhs == Day02Get(m, lhs_addr.val) IN
    IF lhs.err # "none" THEN Day02Out(m, p, "fault", "address") ELSE
    LET rhs_addr == Day02Get(m, p + 2) IN
    IF rhs_addr.err # "none" THEN Day02Out(m, p, "fault", "address") ELSE
    LET rhs == Day02Get(m, rhs_addr.val) IN
    IF rhs.err # "none" THEN Day02Out(m, p, "fault", "address") ELSE
    LET dst_addr == Day02Get(m, p + 3) IN
    IF dst_addr.err # "none" THEN Day02Out(m, p, "fault", "address") ELSE
    LET dst == Day02Get(m, dst_addr.val) IN
    IF dst.err # "none" THEN Day02Out(m, p, "fault", "address") ELSE
    LET wr == Day02Set(m, dst.val, Day02Result(op, lhs.val, rhs.val)) IN
    IF wr.err # "none" THEN Day02Out(m, p, "fault", "address") ELSE
    Day02Out(wr.mem, p + 4, "running", "none")

\* The Add and Mul arms: five reads, the result, one write, pc += 4.
Day02Arith(m, p, op) ==
    LET lhs_addr == Day02Get(m, p + 1) IN
    IF lhs_addr.err # "none" THEN Day02Out(m, p, "fault", "address") ELSE
    LET lhs == Day02Get(m, lhs_addr.val) IN
    IF lhs.err # "none" THEN Day02Out(m, p, "fault", "address") ELSE
    LET rhs_addr == Day02Get(m, p + 2) IN
    IF rhs_addr.err # "none" THEN Day02Out(m, p, "fault", "address") ELSE
    LET rhs == Day02Get(m, rhs_addr.val) IN
    IF rhs.err # "none" THEN Day02Out(m, p, "fault", "address") ELSE
    LET dst == Day02Get(m, p + 3) IN
    IF dst.err # "none" THEN Day02Out(m, p, "fault", "address") ELSE
    LET wr == Day02Set(m, dst.val, Day02Result(op, lhs.val, rhs.val)) IN
    IF wr.err # "none" THEN Day02Out(m, p, "fault", "address") ELSE
    Day02Out(wr.mem, p + 4, "running", "none")

\* The body of the loop of gravity_assist_program.
Day02Step(m, p) ==
    LET word == Day02Get(m, p) IN
    IF word.err # "none" THEN Day02Out(m, p, "fault", "address") ELSE
    LET opcode == Day02OpCodeOf(word.val) IN
    IF opcode = "invalid" THEN Day02Out(m, p, "fault", "opcode") ELSE
    IF opcode = "Eof" THEN Day02Out(m, p, "done", "none") ELSE
    Day02Arith(m, p, opcode)

\* day02 tests::test_part1.
Day02Tests ==
    { <<1, 0, 0, 0, 99>>, <<2, 3, 0, 3, 99>>, <<2, 4, 4, 5, 99, 0>>,
      <<1, 1, 1, 4, 99, 5, 6, 0, 99>> }

Day02Operands == 0..6

Day02Generated ==
    { <<op, a, b, c, 99, v>> :
        op \in {1, 2}, a \in Day02Operands, b \in Day02Operands,
        c \in Day02Operands, v \in {0, 3} }

Day02Programs ==
    Day02Tests \cup Day02Generated
        \cup { <<1, 9, 10, 3, 2, 3, 11, 0, 99, 30, 40, 50>>,
               <<1, 0, 0, 3, 1, 1, 2, 3, 1, 3, 4, 3, 1, 5, 0, 3, 99>>,
               <<2, 0, 0, 0, 2, 0, 0, 0, 1, 0, 0, 4, 99>> }

\* run_tape: the tape is parsed and gravity_assist_program entered.
InitDay02 ==
    /\ prog \in Day02Programs
    /\ mem = prog
    /\ pc = 0
    /\ status = "running"
    /\ fault = "none"
    /\ steps = 0
    /\ relbase = 0
    /\ output = <<>>
    /\ input = <<>>
    /\ fed = <<>>
    /\ calls = 0
    /\ polls = 0
    /\ popped = <<>>
    /\ iolog = <<>>
    /\ NoCaller

Day02Commit(r) ==
    /\ mem' = r.mem
    /\ pc' = r.pc
    /\ status' = r.status
    /\ fault' = r.fault
    /\ steps' = steps + 1
    /\ UNCHANGED <<relbase, output, input, prog, fed, calls, polls, popped, iolog, ampVars, fuelVars, callVars>>

Day02Fetching(op) ==
    /\ status = "running"
    /\ steps < MaxSteps
    /\ op = IF Day02Get(mem, pc).err # "none" THEN "invalid"
            ELSE Day02OpCodeOf(Day02Get(mem, pc).val)

Day02Add == Day02Fetching("Add") /\ Day02Commit(Day02Step(mem, pc))

Day02Mul == Day02Fetching("Mul") /\ Day02Commit(Day02Step(mem, pc))

Day02Eof == Day02Fetching("Eof") /\ Day02Commit(Day02Step(mem, pc))

\* tape.get(pc) or the opcode conversion panics.
Day02Abort == Day02Fetching("invalid") /\ Day02Commit(Day02Step(mem, pc))

NextDay02 == Day02Add \/ Day02Mul \/ Day02Eof \/ Day02Abort

SpecDay02 == InitDay02 /\ [][NextDay02]_vars

----------------------------------------------------------------------------
(* The machine word.  Integer = isize: on a 64-bit target, 8 bytes in      *)
(* two's complement.  A word is the sequence of its bytes, least           *)
(* significant first.  The engine above computes on unbounded integers,    *)
(* which is the same as long as no value leaves the word; here the         *)
(* arithmetic of Add and Mul is done on the bytes.                         *)

WordBytes == 8

\* The bytes, from byte i on, of the two's complement form of the integer n.
RECURSIVE IntBytes(_, _)
IntBytes(n, i) ==
    IF i > WordBytes THEN <<>> ELSE <<n % 256>> \o IntBytes(n \div 256, i + 1)

\* The word of an integer of the model (an integer literal of the source).
IntToWord(n) == IntBytes(n, 1)

WordIsNegative(w) == w[WordBytes] >= 128

\* The word is an integer of at most 32 bits (sign-extended to the word).
WordIsSmall(w) ==
    \/ w[4] < 128 /\ \A i \in 5..WordBytes : w[i] = 0
    \/ w[4] >= 128 /\ \A i \in 5..WordBytes : w[i] = 255

\* The integer of a small word.
WordToInt(w) ==
    w[1] + 256 * w[2] + 65536 * w[3]
        + 16777216 * (IF w[4] >= 128 THEN w[4] - 256 ELSE w[4])

\* The bytes of a + b from byte i on, given the carry into byte i.
RECURSIVE AddBytes(_, _, _, _)
AddBytes(a, b, i, carry) ==
    IF i > WordBytes THEN <<>>
    ELSE <<(a[i] + b[i] + carry) % 256>>
            \o AddBytes(a, b, i + 1, (a[i] + b[i] + carry) \div 256)

\* a + b modulo 2^(8 * WordBytes).
WrappingAdd(a, b) == AddBytes(a, b, 1, 0)

\* a + b does not fit the word: `attempt to add with overflow`.
AddOverflows(a, b) ==
    /\ WordIsNegative(a) = WordIsNegative(b)
    /\ WordIsNegative(WrappingAdd(a, b)) # WordIsNegative(a)

\* The sum of the byte products a[i] * b[j] with i + j = k + 1, i <= n.
RECURSIVE MulColumn(_, _, _, _)
MulColumn(a, b, k, n) ==
    IF n = 0 THEN 0
    ELSE (IF k + 1 - n \in 1..Len(b) THEN a[n] * b[k + 1 - n] ELSE 0)
            + MulColumn(a, b, k, n - 1)

\* Bytes k..n of the product a * b, given the carry into byte k.
RECURSIVE MulBytes(_, _, _, _, _)
MulBytes(a, b, k, n, carry) ==
    IF k > n THEN <<>>
    ELSE LET t == MulColumn(a, b, k, IF k < Len(a) THEN k ELSE Len(a)) + carry
         IN  <<t % 256>> \o MulBytes(a, b, k + 1, n, t \div 256)

\* a * b modulo 2^(8 * WordBytes).
WrappingMul(a, b) == MulBytes(a, b, 1, WordBytes, 0)

\* The product of two unsigned words, in full: 2 * WordBytes bytes.
FullMul(a, b) == MulBytes(a, b, 1, 2 * WordBytes, 0)

\* The bytes of a complemented, from byte i on.
RECURSIVE NotBytes(_, _)
NotBytes(a, i) ==
    IF i > WordBytes THEN <<>> ELSE <<255 - a[i]>> \o NotBytes(a, i + 1)

\* -a modulo 2^(8 * WordBytes), and |a| as an unsigned word.
WrappingNeg(a) == WrappingAdd(NotBytes(a, 1), IntToWord(1))

Magnitude(a) == IF WordIsNegative(a) THEN WrappingNeg(a) ELSE a

\* a * b does not fit the word: `attempt to multiply with overflow`.
MulOverflows(a, b) ==
    LET p == FullMul(Magnitude(a), Magnitude(b))
        top == p[WordBytes]
    IN  \/ \E i \in (WordBytes + 1)..(2 * WordBytes) : p[i] # 0
        \/ IF WordIsNegative(a) # WordIsNegative(b)
           THEN top > 128 \/ (top = 128 /\ \E i \in 1..(WordBytes - 1) : p[i] # 0)
           ELSE top >= 128

\* str::parse::<isize> on a token, given as its sign and its decimal digits:
\* result = result * 10 +/- digit, each step checked.
RECURSIVE ParseFrom(_, _, _)
ParseFrom(tok, i, acc) ==
    IF i > Len(tok.digits) THEN [val |-> acc, err |-> "none"] ELSE
    IF MulOverflows(acc, IntToWord(10)) THEN [val |-> acc, err |-> "parse"] ELSE
    LET shifted == WrappingMul(acc, IntToWord(10))
        digit == IntToWord(IF tok.neg THEN -tok.digits[i] ELSE tok.digits[i])
    IN  IF AddOverflows(shifted, digit) THEN [val |-> acc, err |-> "parse"]
        ELSE ParseFrom(tok, i + 1, WrappingAdd(shifted, digit))

Parse(tok) ==
    IF tok.digits = <<>> THEN [val |-> IntToWord(0), err |-> "parse"]
    ELSE ParseFrom(tok, 1, IntToWord(0))

----------------------------------------------------------------------------
(* The engine on machine words: the part of Tape::run that the programs of *)
(* the large-number tests use (Add, Mul, Output, Eof with Position and     *)
(* Immediate parameters), with memory a sequence of words.  The variables  *)
(* mem, pc, output, status, fault, prog and steps hold its state; prog is  *)
(* the program text, a sequence of tokens.                                 *)

WideResize(m, pos) ==
    IF pos >= Len(m) THEN m \o [i \in 1..(pos + 1 - Len(m)) |-> IntToWord(0)] ELSE m

\* Tape::get at an address given as an integer of the model.
WideGet(m, pos) ==
    IF pos < 0
    THEN [mem |-> m, val |-> IntToWord(0), err |-> "address"]
    ELSE [mem |-> WideResize(m, pos), val |-> WideResize(m, pos)[pos + 1],
          err |-> "none"]

\* Tape::get at an address given as a word: a word beyond 32 bits asks for
\* more cells than can be allocated.
WideGetAt(m, w) ==
    IF WordIsSmall(w) THEN WideGet(m, WordToInt(w))
    ELSE IF WordIsNegative(w) THEN [mem |-> m, val |-> w, err |-> "address"]
    ELSE [mem |-> m, val |-> w, err |-> "alloc"]

WidePget(m, pos, param) ==
    LET first == WideGet(m, pos) IN
    IF param = "Immediate" \/ first.err # "none"
    THEN first
    ELSE WideGetAt(first.mem, first.val)

\* Tape::set at an address given as a word.
WideSetAt(m, w, value) ==
    IF ~WordIsSmall(w)
    THEN [mem |-> m, err |-> IF WordIsNegative(w) THEN "address" ELSE "alloc"]
    ELSE IF WordToInt(w) < 0 THEN [mem |-> m, err |-> "address"]
    ELSE [mem |-> [WideResize(m, WordToInt(w)) EXCEPT ![WordToInt(w) + 1] = value],
          err |-> "none"]

\* The builds of the crate: overflow checks on (debug) or off (release).
Builds == {"debug", "release"}

WideOut(m, p, out, st, f) ==
    [mem |-> m, pc |-> p, output |-> out, status |-> st, fault |-> f]

\* WideArith, were Integer a 32-bit type: the result keeps its low 4 bytes.
WideArithOn32Bits(t, m, d, build) ==
    LET lhs == WidePget(m, t.pc + 1, d.p1) IN
    IF lhs.err # "none" THEN WideOut(lhs.mem, t.pc, t.output, "fault", lhs.err) ELSE
    LET rhs == WidePget(lhs.mem, t.pc + 2, d.p2) IN
    IF rhs.err # "none" THEN WideOut(rhs.mem, t.pc, t.output, "fault", rhs.err) ELSE
    LET dst == WideGet(rhs.mem, t.pc + 3) IN
    IF dst.err # "none" THEN WideOut(dst.mem, t.pc, t.output, "fault", dst.err) ELSE
    LET full == IF d.op = "Add" THEN WrappingAdd(lhs.val, rhs.val)
                ELSE WrappingMul(lhs.val, rhs.val)
        value == [i \in 1..WordBytes |->
                    IF i <= 4 THEN full[i] ELSE IF full[4] >= 128 THEN 255 ELSE 0]
        wr == WideSetAt(dst.mem, dst.val, value)
    IN  IF wr.err # "none" THEN WideOut(wr.mem, t.pc, t.output, "fault", wr.err)
        ELSE WideOut(wr.mem, t.pc + 4, t.output, "running", "none")

\* The Add and Mul arms on words: an overflow panics in a debug build and
\* wraps in a release build.
WideArith(t, m, d, build) ==
    LET lhs == WidePget(m, t.pc + 1, d.p1) IN
    IF lhs.err # "none" THEN WideOut(lhs.mem, t.pc, t.output, "fault", lhs.err) ELSE
    LET rhs == WidePget(lhs.mem, t.pc + 2, d.p2) IN
    IF rhs.err # "none" THEN WideOut(rhs.mem, t.pc, t.output, "fault", rhs.err) ELSE
    LET dst == WideGet(rhs.mem, t.pc + 3) IN
    IF dst.err # "none" THEN WideOut(dst.mem, t.pc, t.output, "fault", dst.err) ELSE
    LET overflows == IF d.op = "Add" THEN AddOverflows(lhs.val, rhs.val)
                     ELSE MulOverflows(lhs.val, rhs.val)
        value == IF d.op = "Add" THEN WrappingAdd(lhs.val, rhs.val)
                 ELSE WrappingMul(lhs.val, rhs.val)
        wr == WideSetAt(dst.mem, dst.val, value)
    IN  IF overflows /\ build = "debug"
        THEN WideOut(dst.mem, t.pc, t.output, "fault", "overflow")
        ELSE IF wr.err # "none"
        THEN WideOut(wr.mem, t.pc, t.output, "fault", wr.err)
        ELSE WideOut(wr.mem, t.pc + 4, t.output, "running", "none")

WideOutput(t, m, d) ==
    LET src == WidePget(m, t.pc + 1, d.p1) IN
    IF src.err # "none" THEN WideOut(src.mem, t.pc, t.output, "fault", src.err) ELSE
    WideOut(src.mem, t.pc + 2, Append(t.output, src.val), "running", "none")

\* The word the loop fetches is one the model decodes: a small word.
WideFetchable(t) == t.pc >= 0 /\ WordIsSmall(WideGet(t.mem, t.pc).val)

WideDecoded(t) == OpCodeOf(WordToInt(WideGet(t.mem, t.pc).val))

\* The operation the next iteration executes, "other" when it is none of
\* the four this engine covers.
WideNextOp(t) ==
    IF ~WideFetchable(t) \/ WideDecoded(t).err # "none" THEN "other"
    ELSE IF WideDecoded(t).op \in {"Add", "Mul"}
            /\ WideDecoded(t).p1 # "Relative" /\ WideDecoded(t).p2 # "Relative"
            /\ WideDecoded(t).p3 # "Relative"
    THEN WideDecoded(t).op
    ELSE IF WideDecoded(t).op = "Output" /\ WideDecoded(t).p1 # "Relative"
    THEN "Output"
    ELSE IF WideDecoded(t).op = "Eof" THEN "Eof"
    ELSE "other"

\* The body of the loop, for the four operations.
WideStep(t, build) ==
    LET word == WideGet(t.mem, t.pc)
        d == WideDecoded(t)
    IN  CASE d.op \in {"Add", "Mul"} -> WideArith(t, word.mem, d, build)
          [] d.op = "Output" -> WideOutput(t, word.mem, d)
          [] d.op = "Eof" -> WideOut(word.mem, t.pc, t.output, "Halt", "none")

\* A token of the program text: a sign and decimal digits.
RECURSIVE DecDigits(_)
DecDigits(n) == IF n < 10 THEN <<n>> ELSE Append(DecDigits(n \div 10), n % 10)

Tok(n) == [neg |-> n < 0, digits |-> DecDigits(IF n < 0 THEN -n ELSE n)]

BigTok(ds) == [neg |-> FALSE, digits |-> ds]

\* The operands of the large-number tests, and others around the 32-bit and
\* 64-bit limits: 2^31, 2^32, floor(sqrt(2^63)) and the next integer,
\* 2^50, 2^63 - 1.
Tok34915192 == Tok(34915192)

TokTwoTo50 == BigTok(<<1, 1, 2, 5, 8, 9, 9, 9, 0, 6, 8, 4, 2, 6, 2, 4>>)

WideOperands ==
    { Tok(0), Tok(1), Tok(-1), Tok(3), Tok(65536), Tok34915192, Tok(-34915192),
      Tok(2147483647),
      BigTok(<<2, 1, 4, 7, 4, 8, 3, 6, 4, 8>>),
      BigTok(<<4, 2, 9, 4, 9, 6, 7, 2, 9, 6>>),
      BigTok(<<3, 0, 3, 7, 0, 0, 0, 4, 9, 9>>),
      BigTok(<<3, 0, 3, 7, 0, 0, 0, 5, 0, 0>>),
      TokTwoTo50,
      BigTok(<<9, 2, 2, 3, 3, 7, 2, 0, 3, 6, 8, 5, 4, 7, 7, 5, 8, 0, 7>>) }

\* 1102,a,b,7,4,7,99,0 (tests::test_part1_ex2), the same with Add, the same
\* with the operands read in Position mode, and 104,v,99 (test_part1_ex3).
MulProgram(a, b) ==
    <<Tok(1102), a, b, Tok(7), Tok(4), Tok(7), Tok(99), Tok(0)>>

AddProgram(a, b) ==
    <<Tok(1101), a, b, Tok(7), Tok(4), Tok(7), Tok(99), Tok(0)>>

MulPositionProgram(a, b) ==
    <<Tok(2), Tok(8), Tok(9), Tok(7), Tok(4), Tok(7), Tok(99), Tok(0), a, b>>

OutputProgram(v) == <<Tok(104), v, Tok(99)>>

WidePrograms ==
    { MulProgram(a, b) : a \in WideOperands, b \in WideOperands }
        \cup { AddProgram(a, b) : a \in WideOperands, b \in WideOperands }
        \cup { MulPositionProgram(Tok34915192, b) : b \in WideOperands }
        \cup { OutputProgram(v) : v \in WideOperands }

\* Tape::from_str on the text: every token parsed; an unparsable one is an
\* error and no tape.
WideFromStr(text) == [i \in 1..Len(text) |-> Parse(text[i]).val]

WideLoads(text) == \A i \in 1..Len(text) : Parse(text[i]).err = "none"

\* tests::test_tape: the tape is built and run with no input.
InitWide ==
    /\ prog \in WidePrograms
    /\ WideLoads(prog)
    /\ mem = WideFromStr(prog)
    /\ pc = 0
    /\ output = <<>>
    /\ status = "running"
    /\ fault = "none"
    /\ steps = 0
    /\ relbase = 0
    /\ input = <<>>
    /\ fed = <<>>
    /\ calls = 1
    /\ polls = 0
    /\ popped = <<>>
    /\ iolog = <<>>
    /\ NoCaller

WideCur == [mem |-> mem, pc |-> pc, output |-> output]

WideCommit(r) ==
    /\ mem' = r.mem
    /\ pc' = r.pc
    /\ output' = r.output
    /\ status' = r.status
    /\ fault' = r.fault
    /\ steps' = steps + 1
    /\ UNCHANGED <<relbase, input, prog, fed, calls, polls, popped, iolog, ampVars, fuelVars, callVars>>

WideFetching(op) ==
    status = "running" /\ steps < MaxSteps /\ WideNextOp(WideCur) = op

WideDoAdd == WideFetching("Add") /\ \E build \in Builds : WideCommit(WideStep(WideCur, build))

WideDoMul == WideFetching("Mul") /\ \E build \in Builds : WideCommit(WideStep(WideCur, build))

WideDoOutput ==
    WideFetching("Output") /\ \E build \in Builds : WideCommit(WideStep(WideCur, build))

WideDoEof == WideFetching("Eof") /\ \E build \in Builds : WideCommit(WideStep(WideCur, build))

NextWide == WideDoAdd \/ WideDoMul \/ WideDoOutput \/ WideDoEof

SpecWide == InitWide /\ [][NextWide]_vars

----------------------------------------------------------------------------
(* Day 7: the Tape of the amplifier loop.  Memory is fixed, there are two  *)
(* parameter modes and no relbase (the variable stays 0); run suspends at  *)
(* an Input without input as on day 9, and the caller takes the outputs    *)
(* one at a time with pop_output between run calls.                        *)

Day07ParamModeOf(value) ==
    CASE value = 0 -> "Position"
      [] value = 1 -> "Immediate"
      [] OTHER -> "invalid"

Day07OpName(opcode) ==
    CASE opcode = 1 -> "Add"
      [] opcode = 2 -> "Mul"
      [] opcode = 3 -> "Input"
      [] opcode = 4 -> "Output"
      [] opcode = 5 -> "JumpIfTrue"
      [] opcode = 6 -> "JumpIfFalse"
      [] opcode = 7 -> "LessThan"
      [] opcode = 8 -> "Equals"
      [] opcode = 99 -> "Eof"
      [] OTHER -> "invalid"

\* From<Integer> for OpCode: _param3 is converted too, and dropped.
Day07OpCodeOf(value) ==
    LET param3 == Day07ParamModeOf(TruncRem(TruncDiv(value, 10000), 10))
        param2 == Day07ParamModeOf(TruncRem(TruncDiv(value, 1000), 10))
        param1 == Day07ParamModeOf(TruncRem(TruncDiv(value, 100), 10))
        opcode == TruncRem(value, 100)
        bad    == [err |-> "none", op |-> "invalid", p1 |-> "invalid",
                   p2 |-> "invalid"]
    IN  IF param3 = "invalid" \/ param2 = "invalid" \/ param1 = "invalid"
        THEN [bad EXCEPT !.err = "param_mode"]
        ELSE IF Day07OpName(opcode) = "invalid"
        THEN [bad EXCEPT !.err = "opcode"]
        ELSE [err |-> "none", op |-> Day07OpName(opcode), p1 |-> param1,
              p2 |-> param2]

\* Tape::get: mem.get(pos as usize).expect(..); a negative pos becomes an
\* index beyond any memory.
Day07Get(m, pos) ==
    IF pos < 0 \/ pos >= Len(m)
    THEN [mem |-> m, val |-> 0, err |-> "address"]
    ELSE [mem |-> m, val |-> m[pos + 1], err |-> "none"]

Day07Pget(m, pos, param) ==
    LET first == Day07Get(m, pos) IN
    IF param = "Immediate" \/ first.err # "none"
    THEN first
    ELSE Day07Get(m, first.val)

\* Day07Set, were memory extended to reach the position as in day09.
Day07SetExtends(m, pos, value) ==
    IF pos < 0
    THEN [mem |-> m, val |-> 0, err |-> "address"]
    ELSE [mem |-> [Resize(m, pos) EXCEPT ![pos + 1] = value], val |-> 0, err |-> "none"]

Day07Set(m, pos, value) ==
    IF pos < 0 \/ pos >= Len(m)
    THEN [mem |-> m, val |-> 0, err |-> "address"]
    ELSE [mem |-> [m EXCEPT ![pos + 1] = value], val |-> 0, err |-> "none"]

\* Add, Mul, LessThan, Equals: lhs, rhs, dst = get(pc + 3), set, pc += 4.
Day07ExecBinary(t, inp, d) ==
    LET lhs == Day07Pget(t.mem, t.pc + 1, d.p1) IN
    IF lhs.err # "none" THEN Ret(t, t.mem, inp, "fault", lhs.err) ELSE
    LET rhs == Day07Pget(t.mem, t.pc + 2, d.p2) IN
    IF rhs.err # "none" THEN Ret(t, t.mem, inp, "fault", rhs.err) ELSE
    LET dst == Day07Get(t.mem, t.pc + 3) IN
    IF dst.err # "none" THEN Ret(t, t.mem, inp, "fault", dst.err) ELSE
    LET wr == Day07Set(t.mem, dst.val, BinaryValue(d.op, lhs.val, rhs.val)) IN
    IF wr.err # "none" THEN Ret(t, t.mem, inp, "fault", wr.err) ELSE
    Cont(wr.mem, t.pc + 4, t.relbase, t.output, inp)

Day07ExecInput(t, inp) ==
    LET dst == Day07Get(t.mem, t.pc + 1) IN
    IF dst.err # "none" THEN Ret(t, t.mem, inp, "fault", dst.err) ELSE
    IF inp = <<>> THEN Ret(t, t.mem, inp, "Poll", "none") ELSE
    LET wr == Day07Set(t.mem, dst.val, Head(inp)) IN
    IF wr.err # "none" THEN Ret(t, t.mem, Tail(inp), "fault", wr.err) ELSE
    Cont(wr.mem, t.pc + 2, t.relbase, t.output, Tail(inp))

Day07ExecOutput(t, inp, d) ==
    LET src == Day07Pget(t.mem, t.pc + 1, d.p1) IN
    IF src.err # "none" THEN Ret(t, t.mem, inp, "fault", src.err) ELSE
    Cont(t.mem, t.pc + 2, t.relbase, Append(t.output, src.val), inp)

Day07ExecJump(t, inp, d, whenTrue) ==
    LET cnd == Day07Pget(t.mem, t.pc + 1, d.p1) IN
    IF cnd.err # "none" THEN Ret(t, t.mem, inp, "fault", cnd.err) ELSE
    LET val == Day07Pget(t.mem, t.pc + 2, d.p2) IN
    IF val.err # "none" THEN Ret(t, t.mem, inp, "fault", val.err) ELSE
    Cont(t.mem,
         IF (cnd.val # 0) = whenTrue THEN val.val ELSE t.pc + 3,
         t.relbase, t.output, inp)

\* The body of the loop of run.
Day07StepTape(t, inp) ==
    LET word == Day07Get(t.mem, t.pc) IN
    IF word.err # "none" THEN Ret(t, t.mem, inp, "fault", word.err) ELSE
    LET d == Day07OpCodeOf(word.val) IN
    IF d.err # "none" THEN Ret(t, t.mem, inp, "fault", d.err) ELSE
    CASE d.op \in {"Add", "Mul", "LessThan", "Equals"} -> Day07ExecBinary(t, inp, d)
      [] d.op = "Input" -> Day07ExecInput(t, inp)
      [] d.op = "Output" -> Day07ExecOutput(t, inp, d)
      [] d.op = "JumpIfTrue" -> Day07ExecJump(t, inp, d, TRUE)
      [] d.op = "JumpIfFalse" -> Day07ExecJump(t, inp, d, FALSE)
      [] d.op = "Eof" -> Ret(t, t.mem, inp, "Halt", "none")

RECURSIVE Day07RunLoop(_, _, _)
Day07RunLoop(t, inp, fuel) ==
    IF fuel = 0 THEN Cont(t.mem, t.pc, t.relbase, t.output, inp) ELSE
    LET r == Day07StepTape(t, inp) IN
    IF r.status = "running"
    THEN Day07RunLoop(Tape(r.mem, r.pc, r.relbase, r.output), r.input, fuel - 1)
    ELSE r

\* Tape::run as a whole.
Day07Run(t, inp, fuel) ==
    IF t.mem = <<>> THEN Ret(t, t.mem, inp, "Halt", "none") ELSE Day07RunLoop(t, inp, fuel)

\* Echoes each input value and jumps back: suspends whenever input runs out.
Day07Echo == <<3, 8, 4, 8, 1105, 1, 0, 99, 0>>

\* Outputs 5, takes an input, outputs 6, takes an input, halts.
Day07OutputsAroundInputs == <<104, 5, 3, 9, 104, 6, 3, 9, 99, 0>>

Day07Programs ==
    { Day07Echo, Day07OutputsAroundInputs,
      <<3, 0, 4, 0, 99>>,
      <<3, 9, 8, 9, 10, 9, 4, 9, 99, -1, 8>>,
      <<3, 3, 1107, -1, 8, 3, 4, 3, 99>>,
      <<3, 11, 3, 12, 1, 11, 12, 13, 4, 13, 99, 0, 0, 0>>,
      <<3, 12, 6, 12, 15, 1, 13, 14, 13, 4, 13, 99, -1, 0, 1, 9>>,
      <<3, 3, 1105, -1, 9, 1101, 0, 0, 12, 4, 12, 99, 1>>,
      <<3, 15, 3, 16, 1002, 16, 10, 16, 1, 16, 15, 15, 4, 15, 99, 0, 0>>,
      <<104, 1, 104, 2, 104, 3, 99>>,
      <<4, 0, 4, 1, 99>>,
      <<10004, 0, 99>>,
      <<1002, 4, 3, 4, 33>>,
      <<99>>,
      <<104, 1, 104, 2>>, <<4, 9, 99>>, <<204, 0, 99>>, <<9, 0, 99>>,
      <<20004, 1, 99>>, <<1105, 1, -1>>, <<3, -1, 99>>, <<3, 20, 99>>,
      <<1101, 1, 1, 7, 99>>, <<0>>, <<104, 7, 1105, 1, 9>> }

Day07Batches == { <<>>, <<0>>, <<8>>, <<8, 0>> }

MaxPops == 2

\* Option<Integer>.
Some(v) == [some |-> TRUE, val |-> v]

None == [some |-> FALSE, val |-> 0]

\* Tape::from_str: the parsed words, pc = 0, no output.
InitDay07 ==
    /\ prog \in Day07Programs
    /\ mem = prog
    /\ pc = 0
    /\ relbase = 0
    /\ output = <<>>
    /\ input = <<>>
    /\ status = "ready"
    /\ fault = "none"
    /\ fed = <<>>
    /\ steps = 0
    /\ calls = 0
    /\ polls = 0
    /\ popped = <<>>
    /\ iolog = <<>>
    /\ NoCaller

\* A call of run: `if self.empty() { return Halt }`, then the loop.
Day07RunCall(batch) ==
    /\ status \in {"ready", "Poll", "Halt"}
    /\ calls < MaxCalls
    /\ input' = batch
    /\ status' = IF mem = <<>> THEN "Halt" ELSE "running"
    /\ fed' = IF status = "Halt" THEN fed ELSE fed \o batch
    /\ calls' = calls + 1
    /\ UNCHANGED <<mem, pc, relbase, output, fault, prog, steps, polls, popped, iolog, ampVars, fuelVars, callVars>>

\* Day07PopOutput, were the newest value taken (pop_back).
Day07PopOutputNewest ==
    /\ status \in {"ready", "Poll", "Halt"}
    /\ Len(popped) < MaxPops
    /\ output' = IF output = <<>> THEN <<>> ELSE SubSeq(output, 1, Len(output) - 1)
    /\ popped' = Append(popped, IF output = <<>> THEN None ELSE Some(output[Len(output)]))
    /\ UNCHANGED <<mem, pc, relbase, input, status, fault, prog, fed, steps, calls, polls,
                   iolog, ampVars, fuelVars, callVars>>

\* Tape::pop_output, called by the owner of the tape between run calls:
\* VecDeque::pop_front.
Day07PopOutput ==
    /\ status \in {"ready", "Poll", "Halt"}
    /\ Len(popped) < MaxPops
    /\ output' = IF output = <<>> THEN <<>> ELSE Tail(output)
    /\ popped' = Append(popped, IF output = <<>> THEN None ELSE Some(Head(output)))
    /\ UNCHANGED <<mem, pc, relbase, input, status, fault, prog, fed, steps, calls, polls,
                   iolog, ampVars, fuelVars, callVars>>

Day07NextOp ==
    IF Day07Get(mem, pc).err # "none" \/ Day07OpCodeOf(Day07Get(mem, pc).val).err # "none"
    THEN "invalid"
    ELSE Day07OpCodeOf(Day07Get(mem, pc).val).op

Day07TapeFetching(op) == status = "running" /\ steps < MaxSteps /\ Day07NextOp = op

Day07DoAdd == Day07TapeFetching("Add") /\ Commit(Day07StepTape(Cur, input))

Day07DoMul == Day07TapeFetching("Mul") /\ Commit(Day07StepTape(Cur, input))

Day07DoInput == Day07TapeFetching("Input") /\ Commit(Day07StepTape(Cur, input))

Day07DoOutput == Day07TapeFetching("Output") /\ Commit(Day07StepTape(Cur, input))

Day07DoJumpIfTrue == Day07TapeFetching("JumpIfTrue") /\ Commit(Day07StepTape(Cur, input))

Day07DoJumpIfFalse == Day07TapeFetching("JumpIfFalse") /\ Commit(Day07StepTape(Cur, input))

Day07DoLessThan == Day07TapeFetching("LessThan") /\ Commit(Day07StepTape(Cur, input))

Day07DoEquals == Day07TapeFetching("Equals") /\ Commit(Day07StepTape(Cur, input))

Day07DoEof == Day07TapeFetching("Eof") /\ Commit(Day07StepTape(Cur, input))

\* The fetch or the decoding panics.
Day07DoAbort == Day07TapeFetching("invalid") /\ Commit(Day07StepTape(Cur, input))

NextDay07 ==
    \/ \E batch \in Day07Batches : Day07RunCall(batch)
    \/ Day07PopOutput
    \/ Day07DoAdd
    \/ Day07DoMul
    \/ Day07DoInput
    \/ Day07DoOutput
    \/ Day07DoJumpIfTrue
    \/ Day07DoJumpIfFalse
    \/ Day07DoLessThan
    \/ Day07DoEquals
    \/ Day07DoEof
    \/ Day07DoAbort

SpecDay07 == InitDay07 /\ [][NextDay07]_vars

----------------------------------------------------------------------------
(* Days 11 and 13: the Tape whose run takes an Io closure.  Memory, modes, *)
(* relbase, the decoder and every arm but Input and Output are those of    *)
(* day 9, word for word; the tape has no output queue.  The closure is the *)
(* caller's: what it returns is a free choice at each invocation, and      *)
(* iolog records the invocations.                                          *)

IoInput(ret) == [io |-> "Input", arg |-> 0, ret |-> ret]

IoOutput(v, ret) == [io |-> "Output", arg |-> v, ret |-> ret]

Day11Tape(m, p, rb, log) == [mem |-> m, pc |-> p, relbase |-> rb, iolog |-> log]

Day11Out(m, p, rb, log, st, f) ==
    [mem |-> m, pc |-> p, relbase |-> rb, iolog |-> log, status |-> st, fault |-> f]

\* OpCode::Input: dst, then io(Io::Input); Some(value) is stored, None
\* returns Poll.
Day11ExecInput(t, m, d, answer) ==
    LET dst == Dst(m, t.relbase, t.pc + 1, d.p1) IN
    IF dst.err # "none"
    THEN Day11Out(dst.mem, t.pc, t.relbase, t.iolog, "fault", dst.err) ELSE
    IF ~answer.some
    THEN Day11Out(dst.mem, t.pc, t.relbase, Append(t.iolog, IoInput(answer)),
                  "Poll", "none") ELSE
    LET wr == Set(dst.mem, dst.val, answer.val) IN
    IF wr.err # "none"
    THEN Day11Out(wr.mem, t.pc, t.relbase, Append(t.iolog, IoInput(answer)),
                  "fault", wr.err)
    ELSE Day11Out(wr.mem, t.pc + 2, t.relbase, Append(t.iolog, IoInput(answer)),
                  "running", "none")

\* Day11ExecOutput, were a None returned for an output to suspend the run.
Day11ExecOutputHeedsNone(t, m, d, answer) ==
    LET src == Pget(m, t.relbase, t.pc + 1, d.p1) IN
    IF src.err # "none"
    THEN Day11Out(src.mem, t.pc, t.relbase, t.iolog, "fault", src.err)
    ELSE Day11Out(src.mem, t.pc + 2, t.relbase,
                  Append(t.iolog, IoOutput(src.val, answer)),
                  IF answer.some THEN "running" ELSE "Poll", "none")

\* OpCode::Output: src, then io(Io::Output(src)); the result is dropped.
Day11ExecOutput(t, m, d, answer) ==
    LET src == Pget(m, t.relbase, t.pc + 1, d.p1) IN
    IF src.err # "none"
    THEN Day11Out(src.mem, t.pc, t.relbase, t.iolog, "fault", src.err)
    ELSE Day11Out(src.mem, t.pc + 2, t.relbase,
                  Append(t.iolog, IoOutput(src.val, answer)), "running", "none")

\* The body of the loop of run; answer is what the closure returns if this
\* iteration invokes it.
Day11StepTape(t, answer) ==
    LET word == Get(t.mem, t.pc)
        d == OpCodeOf(word.val)
        r == StepTape(Tape(t.mem, t.pc, t.relbase, <<>>), <<>>)
    IN  IF word.err = "none" /\ d.err = "none" /\ d.op = "Input"
        THEN Day11ExecInput(t, word.mem, d, answer)
        ELSE IF word.err = "none" /\ d.err = "none" /\ d.op = "Output"
        THEN Day11ExecOutput(t, word.mem, d, answer)
        ELSE Day11Out(r.mem, r.pc, r.relbase, t.iolog, r.status, r.fault)

Day11Programs ==
    { <<104, 5, 3, 0, 4, 0, 99>>,
      <<3, 0, 4, 0, 99>>,
      <<3, 8, 4, 8, 1105, 1, 0, 99, 0>>,
      <<109, 5, 203, 1, 204, 1, 99>>,
      <<104, 1, 104, 2, 104, 3, 99>>,
      <<3, 9, 8, 9, 10, 9, 4, 9, 99, -1, 8>>,
      <<3, 20, 3, 21, 7, 20, 21, 22, 4, 22, 99>>,
      <<1101, 3, 4, 20, 4, 20, 99>>,
      <<9, 0, 204, -9, 99>>,
      <<3, -1, 99>>, <<4, -1, 99>>, <<104, 7, 300>>, <<103, 0, 99>>,
      <<1105, 1, 4, 0, 104, 2, 1106, 0, 0>>,
      <<99>> }

\* What the closure may return.
Answers == { None, Some(0), Some(8) }

MaxIo == 4

\* Tape::from(text): the parsed words, pc = 0, relbase = 0.
InitDay11 ==
    /\ prog \in Day11Programs
    /\ mem = prog
    /\ pc = 0
    /\ relbase = 0
    /\ output = <<>>
    /\ input = <<>>
    /\ status = "ready"
    /\ fault = "none"
    /\ fed = <<>>
    /\ steps = 0
    /\ calls = 0
    /\ polls = 0
    /\ popped = <<>>
    /\ iolog = <<>>
    /\ NoCaller

\* A call of run with a closure: `if self.empty() { return Halt }`, then the
\* loop.
Day11RunCall ==
    /\ status \in {"ready", "Poll", "Halt"}
    /\ calls < MaxCalls
    /\ status' = IF mem = <<>> THEN "Halt" ELSE "running"
    /\ calls' = calls + 1
    /\ UNCHANGED <<mem, pc, relbase, output, input, fault, prog, fed, steps, polls,
                   popped, iolog, ampVars, fuelVars, callVars>>

Day11Cur == Day11Tape(mem, pc, relbase, iolog)

Day11Commit(r) ==
    /\ mem' = r.mem
    /\ pc' = r.pc
    /\ relbase' = r.relbase
    /\ iolog' = r.iolog
    /\ status' = r.status
    /\ fault' = r.fault
    /\ polls' = IF r.status = "Poll" THEN polls + 1 ELSE polls
    /\ steps' = steps + 1
    /\ UNCHANGED <<output, input, prog, fed, calls, popped, ampVars, fuelVars, callVars>>

\* An iteration that invokes the closure.
Day11DoInput ==
    /\ Fetching("Input")
    /\ Len(iolog) < MaxIo
    /\ \E answer \in Answers : Day11Commit(Day11StepTape(Day11Cur, answer))

Day11DoOutput ==
    /\ Fetching("Output")
    /\ Len(iolog) < MaxIo
    /\ \E answer \in Answers : Day11Commit(Day11StepTape(Day11Cur, answer))

\* An iteration that does not: the arms of day 9, a fetch or decoding that
\* panics.
Day11DoOther ==
    /\ status = "running"
    /\ steps < MaxSteps
    /\ NextOp \notin {"Input", "Output"}
    /\ Day11Commit(Day11StepTape(Day11Cur, None))

NextDay11 == Day11RunCall \/ Day11DoInput \/ Day11DoOutput \/ Day11DoOther

SpecDay11 == InitDay11 /\ [][NextDay11]_vars

----------------------------------------------------------------------------
(* Day 11: robot.  The closure handed to run captures pos, dir, map and    *)
(* is_moving; robot holds them.  The tape is a clone of the parsed one and *)
(* run is called once.                                                     *)

Direction == { "Up", "Down", "Left", "Right" }

\* map.get(&pos).copied().unwrap_or(false) as Integer
Colour(map, pos) == IF pos \in DOMAIN map /\ map[pos] THEN 1 ELSE 0

\* map.insert(pos, value)
Insert(map, pos, value) ==
    [p \in (DOMAIN map) \cup {pos} |-> IF p = pos THEN value ELSE map[p]]

\* Turn, were 0 a turn to the right and 1 a turn to the left.
TurnMirrored(out, dir) ==
    CASE out = 1 /\ dir = "Up" -> "Left"
      [] out = 1 /\ dir = "Left" -> "Down"
      [] out = 1 /\ dir = "Down" -> "Right"
      [] out = 1 /\ dir = "Right" -> "Up"
      [] out = 0 /\ dir = "Up" -> "Right"
      [] out = 0 /\ dir = "Left" -> "Up"
      [] out = 0 /\ dir = "Down" -> "Left"
      [] out = 0 /\ dir = "Right" -> "Down"

\* dir = match (output, dir) { ... }
Turn(out, dir) ==
    CASE out = 0 /\ dir = "Up" -> "Left"
      [] out = 0 /\ dir = "Left" -> "Down"
      [] out = 0 /\ dir = "Down" -> "Right"
      [] out = 0 /\ dir = "Right" -> "Up"
      [] out = 1 /\ dir = "Up" -> "Right"
      [] out = 1 /\ dir = "Left" -> "Up"
      [] out = 1 /\ dir = "Down" -> "Left"
      [] out = 1 /\ dir = "Right" -> "Down"

\* match dir { Up => pos.1 -= 1, Down => pos.1 += 1, Left => pos.0 -= 1,
\* Right => pos.0 += 1 }
Move(pos, dir) ==
    CASE dir = "Up" -> <<pos[1], pos[2] - 1>>
      [] dir = "Down" -> <<pos[1], pos[2] + 1>>
      [] dir = "Left" -> <<pos[1] - 1, pos[2]>>
      [] dir = "Right" -> <<pos[1] + 1, pos[2]>>

\* The closure on Io::Input.
RobotOnInput(bot) == Some(Colour(bot.map, bot.pos))

\* The closure on Io::Output(output): the panic on a value other than 0 and
\* 1, else a turn and a move or a paint, then is_moving = !is_moving.
RobotOnOutput(bot, out) ==
    IF out \notin {0, 1} THEN [panic |-> TRUE, bot |-> bot] ELSE
    IF bot.is_moving
    THEN LET d == Turn(out, bot.dir) IN
         [panic |-> FALSE,
          bot |-> [bot EXCEPT !.dir = d, !.pos = Move(bot.pos, d),
                              !.is_moving = FALSE]]
    ELSE [panic |-> FALSE,
          bot |-> [bot EXCEPT !.map = Insert(bot.map, bot.pos, out # 0),
                              !.is_moving = TRUE]]

RobotPrograms ==
    { <<104, 1, 104, 0, 104, 0, 104, 1, 3, 0, 4, 0, 99>>,
      <<3, 20, 102, -1, 20, 20, 101, 1, 20, 20, 4, 20, 104, 1, 1105, 1, 0>>,
      <<3, 20, 4, 20, 3, 20, 4, 20, 1105, 1, 0>>,
      <<104, 1, 104, 0, 1105, 1, 0>>,
      <<104, 0, 104, 1, 104, 1, 104, 0, 3, 0, 99>>,
      <<104, 1, 3, 0, 4, 0, 99>>,
      <<104, 2, 99>>, <<104, 1, 104, 5, 99>>, <<3, 1, 104, -1, 99>>,
      <<3, -1, 99>>, <<4, -1, 99>>, <<104, 1, 300>>,
      <<99>>, <<>> }

\* How many times the closure is invoked.
MaxRobotIo == 24

\* The locals of robot before run: pos, dir, an empty map with the start
\* cell inserted, is_moving, and the clone of the tape.
InitRobot ==
    /\ prog \in RobotPrograms
    /\ mem = prog
    /\ pc = 0
    /\ relbase = 0
    /\ output = <<>>
    /\ input = <<>>
    /\ status = "ready"
    /\ fault = "none"
    /\ fed = <<>>
    /\ steps = 0
    /\ calls = 0
    /\ polls = 0
    /\ popped = <<>>
    /\ iolog = <<>>
    /\ NoAmps
    /\ NoFuel
    /\ cursor = "run"
    /\ result = NoResult
    /\ NoPassword
    /\ \E initial_tile \in BOOLEAN :
          robot = [pos |-> <<0, 0>>, dir |-> "Up", map |-> (<<0, 0>> :> initial_tile),
                   is_moving |-> FALSE]

\* tape.run(|io| ...): `if self.empty() { return Halt }`, then the loop.
RobotRunCall ==
    /\ cursor = "run"
    /\ status = "ready"
    /\ status' = IF mem = <<>> THEN "Halt" ELSE "running"
    /\ calls' = calls + 1
    /\ UNCHANGED <<mem, pc, relbase, output, input, fault, prog, fed, steps, polls,
                   popped, iolog, ampVars, fuelVars, callVars>>

\* The closure on the output of iteration r, if it has one.
RobotClosure(r, bot) ==
    RobotOnOutput(bot, IF r.iolog = <<>> THEN 0 ELSE r.iolog[Len(r.iolog)].arg)

\* What the closure makes of an iteration r of the loop begun at tape t: an
\* Output that got as far as invoking it panics or updates the robot.
RobotAfter(r, t, bot) ==
    IF Len(r.iolog) = Len(t.iolog) \/ r.iolog[Len(r.iolog)].io # "Output"
    THEN [tape |-> r, bot |-> bot] ELSE
    IF RobotClosure(r, bot).panic
    THEN [tape |-> Day11Out(r.mem, t.pc, t.relbase, r.iolog, "fault", "rotation"),
          bot |-> bot]
    ELSE [tape |-> r, bot |-> RobotClosure(r, bot).bot]

\* One iteration of the loop of run with the closure of robot.
RobotStep(t, bot) == RobotAfter(Day11StepTape(t, RobotOnInput(bot)), t, bot)

RobotCommit(r) ==
    /\ mem' = r.tape.mem
    /\ pc' = r.tape.pc
    /\ relbase' = r.tape.relbase
    /\ iolog' = r.tape.iolog
    /\ status' = r.tape.status
    /\ fault' = r.tape.fault
    /\ polls' = IF r.tape.status = "Poll" THEN polls + 1 ELSE polls
    /\ steps' = steps + 1
    /\ robot' = r.bot
    /\ UNCHANGED <<output, input, prog, fed, calls, popped, ampVars, fuelVars, cursor,
                   result, password>>

\* An iteration that fetches an Input: the closure answers with the colour.
RobotDoInput ==
    /\ Fetching("Input")
    /\ Len(iolog) < MaxRobotIo
    /\ RobotCommit(RobotStep(Day11Cur, robot))

\* An iteration that fetches an Output.
RobotDoOutput ==
    /\ Fetching("Output")
    /\ Len(iolog) < MaxRobotIo
    /\ RobotCommit(RobotStep(Day11Cur, robot))

\* An iteration that does not invoke the closure.
RobotDoOther ==
    /\ status = "running"
    /\ steps < MaxSteps
    /\ NextOp \notin {"Input", "Output"}
    /\ RobotCommit(RobotStep(Day11Cur, robot))

\* assert_eq!(status, RunStatus::Halt); map
RobotReturn ==
    /\ cursor = "run"
    /\ status \in {"Halt", "Poll"}
    /\ cursor' = IF status = "Halt" THEN "returned" ELSE "panicked"
    /\ result' = IF status = "Halt" THEN robot.map ELSE result
    /\ UNCHANGED <<tapeVars, ampVars, fuelVars, robot, password>>

NextRobot == RobotRunCall \/ RobotDoInput \/ RobotDoOutput \/ RobotDoOther \/ RobotReturn

SpecRobot == InitRobot /\ [][NextRobot]_vars

----------------------------------------------------------------------------
(* Day 4: validate2.  Password(n) is an iterator over the decimal digits   *)
(* of n from the last to the first; validate2 zips it with itself skipped  *)
(* by one, scans the pairs and asks whether all of the scan is true.       *)

\* impl Iterator for Password: next.
PasswordNext(p) ==
    IF p # 0 THEN [some |-> TRUE, val |-> p % 10, rest |-> p \div 10]
             ELSE [some |-> FALSE, val |-> 0, rest |-> p]

\* password.skip(1)
Skip1(p) == PasswordNext(p).rest

\* enum AdjacentDigits
AdjOk == [tag |-> "Ok", d |-> 0]

AdjMaybe(d) == [tag |-> "Maybe", d |-> d]

AdjNotOk(d) == [tag |-> "NotOk", d |-> d]

AdjNone == [tag |-> "None", d |-> 0]

\* AdjStep, were a pair followed by the same digit again still a candidate.
AdjStepAtLeastTwo(adj, d0, d1) ==
    CASE adj.tag = "Ok" -> adj
      [] adj.tag = "Maybe" -> AdjOk
      [] adj.tag = "NotOk" -> IF adj.d # d1 THEN AdjNone ELSE adj
      [] adj.tag = "None" -> IF d0 = d1 THEN AdjMaybe(d1) ELSE adj

\* match adj_digits { ... } in the closure of scan.
AdjStep(adj, d0, d1) ==
    CASE adj.tag = "Ok" -> adj
      [] adj.tag = "Maybe" -> IF adj.d = d1 THEN AdjNotOk(adj.d) ELSE AdjOk
      [] adj.tag = "NotOk" -> IF adj.d # d1 THEN AdjNone ELSE adj
      [] adj.tag = "None" -> IF d0 = d1 THEN AdjMaybe(d1) ELSE adj

\* password.zip(password.skip(1)).scan(true, ...).all(|x| x): zip ends when
\* either iterator does, the closure updates adj_digits and then state, and
\* all stops at the first false.
RECURSIVE ScanAll(_, _, _)
ScanAll(a, b, adj) ==
    LET na == PasswordNext(a)
        nb == PasswordNext(b)
    IN  IF ~na.some \/ ~nb.some THEN [adj_digits |-> adj, ascending |-> TRUE] ELSE
        IF ~(na.val >= nb.val)
        THEN [adj_digits |-> AdjStep(adj, na.val, nb.val), ascending |-> FALSE]
        ELSE ScanAll(na.rest, nb.rest, AdjStep(adj, na.val, nb.val))

\* if let Maybe(_) = adj_digits { adj_digits = Ok }
\* adj_digits == AdjacentDigits::Ok && ascending
Validate2Of(s) ==
    (IF s.adj_digits.tag = "Maybe" THEN AdjOk ELSE s.adj_digits) = AdjOk /\ s.ascending

Validate2(p) == Validate2Of(ScanAll(p, Skip1(p), AdjNone))

\* The passwords validated: every number up to MaxPassword, every six-digit
\* number written with the digits of SixDigits, and those of the tests.
MaxPassword == 9999

SixDigits == { 1, 2, 3, 4 }

Part2Examples == { 112233, 123444, 589999 }

Passwords ==
    (0..MaxPassword)
    \cup { ((((a * 10 + b) * 10 + c) * 10 + d) * 10 + e) * 10 + f :
            a \in SixDigits, b \in SixDigits, c \in SixDigits, d \in SixDigits,
            e \in SixDigits, f \in SixDigits }
    \cup Part2Examples

InitDay04 ==
    /\ NoTape
    /\ NoAmps
    /\ NoFuel
    /\ NoRobot
    /\ cursor = "entry"
    /\ result = NoResult
    /\ password \in Passwords

\* validate2(&Password(password))
Validate2Call ==
    /\ cursor = "entry"
    /\ result' = Validate2(password)
    /\ cursor' = "returned"
    /\ UNCHANGED <<tapeVars, ampVars, fuelVars, robot, password>>

NextDay04 == Validate2Call

SpecDay04 == InitDay04 /\ [][NextDay04]_vars

----------------------------------------------------------------------------
(* Day 7: tapes obtained by Tape::clone.  A Tape is an object; heap holds  *)
(* the objects alive and a reference is an index into it.  Object 1 is the *)
(* tape the caller was given.                                              *)

\* #[derive(Clone)] struct Tape: clone builds a new object from copies of
\* mem, pc and output.
CloneHeap(h, ref) == Append(h, h[ref])

\* CloneRef, were the clone the object it was cloned from.
CloneRefAliased(h, ref) == ref

\* The reference clone returns: the new object.
CloneRef(h, ref) == Len(h) + 1

\* (setting, tape) of find_signal_feedback_loop's amps.
Amp(setting, ref) == [setting |-> setting, tape |-> ref]

\* The tape behind the i-th engine.
TapeOf(h, as, i) == h[as[i].tape]

ClonePrograms ==
    { Day07Echo, Day07OutputsAroundInputs,
      <<3, 0, 4, 0, 99>>,
      <<3, 11, 3, 12, 1, 11, 12, 13, 4, 13, 99, 0, 0, 0>>,
      <<104, 1, 104, 2, 104, 3, 99>>,
      <<3, -1, 99>>, <<4, 9, 99>>, <<99>> }

CloneBatches == { <<>>, <<8>>, <<8, 0>> }

MaxAmps == 2

MaxAmpCalls == 3

\* The caller holds the tape it was given and no clone yet.
InitClones ==
    /\ NoTape
    /\ NoFuel
    /\ \E tape \in ClonePrograms : heap = <<Tape(tape, 0, 0, <<>>)>>
    /\ amps = <<>>
    /\ signal = 0
    /\ last_signal = 0
    /\ given = <<>>
    /\ lastpop = <<>>
    /\ rounds = 0
    /\ cursor = "calls"
    /\ result = 0
    /\ NoRobot
    /\ NoPassword

\* `let mut amp = tape.clone()`: one more engine, cloned from the tape given.
ClonesClone ==
    /\ cursor = "calls"
    /\ Len(amps) < MaxAmps
    /\ heap' = CloneHeap(heap, 1)
    /\ amps' = Append(amps, Amp(0, CloneRef(heap, 1)))
    /\ given' = Append(given, <<>>)
    /\ lastpop' = Append(lastpop, <<>>)
    /\ UNCHANGED <<tapeVars, signal, last_signal, rounds, fuelVars, cursor, result, robot, password>>

\* amp.run(batch) on the i-th engine, from entry to return; a panic ends the
\* thread, a run that does not come back within MaxSteps iterations is taken
\* not to return.
ClonesRun(i, batch) ==
    /\ cursor = "calls"
    /\ rounds < MaxAmpCalls
    /\ LET r == Day07Run(TapeOf(heap, amps, i), batch, MaxSteps) IN
        /\ heap' = [heap EXCEPT ![amps[i].tape] = Tape(r.mem, r.pc, 0, r.output)]
        /\ cursor' = CASE r.status = "fault" -> "panicked"
                       [] r.status = "running" -> "diverged"
                       [] OTHER -> "calls"
    /\ given' = [given EXCEPT ![i] = Append(@, batch)]
    /\ rounds' = rounds + 1
    /\ UNCHANGED <<tapeVars, amps, signal, last_signal, lastpop, fuelVars, result, robot, password>>

\* amp.pop_output() on the i-th engine: VecDeque::pop_front.
ClonesPop(i) ==
    /\ cursor = "calls"
    /\ rounds < MaxAmpCalls
    /\ LET t == TapeOf(heap, amps, i) IN
        /\ heap' = [heap EXCEPT ![amps[i].tape] =
                       Tape(t.mem, t.pc, 0,
                            IF t.output = <<>> THEN <<>> ELSE Tail(t.output))]
        /\ lastpop' = [lastpop EXCEPT ![i] =
                          Append(@, IF t.output = <<>> THEN None ELSE Some(Head(t.output)))]
    /\ rounds' = rounds + 1
    /\ UNCHANGED <<tapeVars, amps, signal, last_signal, given, fuelVars, cursor, result, robot, password>>

ClonesRunAny == \E i \in 1..Len(amps) : \E batch \in CloneBatches : ClonesRun(i, batch)

ClonesPopAny == \E i \in 1..Len(amps) : ClonesPop(i)

NextClones == ClonesClone \/ ClonesRunAny \/ ClonesPopAny

SpecClones == InitClones /\ [][NextClones]_vars

----------------------------------------------------------------------------
(* Day 7: find_signal_feedback_loop, one action per call it makes.         *)

\* Tape::halted: the word at pc decodes to Eof; get and the decoder may panic.
Day07Halted(t) ==
    LET word == Day07Get(t.mem, t.pc) IN
    IF word.err # "none" THEN [err |-> word.err, val |-> FALSE] ELSE
    LET d == Day07OpCodeOf(word.val) IN
    IF d.err # "none" THEN [err |-> d.err, val |-> FALSE]
    ELSE [err |-> "none", val |-> d.op = "Eof"]

\* settings.iter().map(|setting| (*setting, tape.clone())).collect(), from the
\* k-th setting on: the heap and the engines built.
RECURSIVE Collect(_, _, _, _)
Collect(h, as, settings, k) ==
    IF k > Len(settings) THEN [heap |-> h, amps |-> as]
    ELSE Collect(CloneHeap(h, 1), Append(as, Amp(settings[k], CloneRef(h, 1))),
                 settings, k + 1)

\* The examples of the tests of part 2.
FeedbackEx1 ==
    <<3, 26, 1001, 26, -4, 26, 3, 27, 1002, 27, 2, 27, 1, 27, 26, 27, 4, 27,
      1001, 28, -1, 28, 1005, 28, 6, 99, 0, 0, 5>>

FeedbackEx2 ==
    <<3, 52, 1001, 52, -5, 52, 3, 53, 1, 52, 56, 54, 1007, 54, 5, 55, 1005, 55, 26,
      1001, 54, -5, 54, 1105, 1, 12, 1, 53, 54, 53, 1008, 54, 0, 55, 1001, 55, 1,
      55, 2, 53, 55, 53, 4, 53, 1001, 56, -1, 56, 1005, 56, 6, 99, 0, 0, 0, 0, 10>>

\* Takes its setting, then on each signal outputs signal + 1; halts after the
\* output if the setting is 5, and asks for the next signal otherwise.
HaltsOnFive ==
    <<3, 22, 3, 23, 1001, 23, 1, 23, 4, 23, 1008, 22, 5, 24, 1005, 24, 20,
      1105, 1, 2, 99, 0, 0, 0, 0>>

\* Takes its setting, then on each signal outputs the setting and the signal.
TwoOutputs == <<3, 15, 3, 16, 4, 15, 4, 16, 1105, 1, 2, 0, 0, 0, 0, 0, 0>>

FeedbackPrograms ==
    { FeedbackEx1, FeedbackEx2, HaltsOnFive, TwoOutputs, Day07Echo,
      <<3, 0, 3, 1, 4, 1, 99>>,
      <<99>>,
      <<3, 0, 3, 1, 99>>,
      <<3, 0, 3, 1, 1105, 1, 2>>,
      <<3, 0, 77>>,
      <<3, 0, 3, 1, 4, 1, 1105, 1, 40>> }

FeedbackSettings ==
    { <<9, 8, 7, 6, 5>>, <<9, 7, 8, 5, 6>>, <<5, 6, 7, 8, 9>>,
      <<6, 5>>, <<5, 6>>, <<7, 9, 5>>, <<8>> }

MaxRounds == 11

At(where, i) == [at |-> where, i |-> i]

\* find_signal_feedback_loop(tape, settings) is entered.
InitFeedback ==
    /\ NoTape
    /\ NoFuel
    /\ \E tape \in FeedbackPrograms : heap = <<Tape(tape, 0, 0, <<>>)>>
    /\ amps = <<>>
    /\ signal = 0
    /\ last_signal = 0
    /\ given = <<>>
    /\ lastpop = <<>>
    /\ rounds = 0
    /\ cursor = At("collect", 0)
    /\ result = 0
    /\ NoRobot
    /\ NoPassword

\* `let mut amps = ... .collect()`: one clone of the tape per setting.
FeedbackCollect ==
    /\ cursor.at = "collect"
    /\ \E settings \in FeedbackSettings :
        /\ heap' = Collect(heap, <<>>, settings, 1).heap
        /\ amps' = Collect(heap, <<>>, settings, 1).amps
        /\ given' = [i \in 1..Len(settings) |-> <<>>]
        /\ lastpop' = [i \in 1..Len(settings) |-> None]
    /\ cursor' = At("setup", 1)
    /\ UNCHANGED <<tapeVars, signal, last_signal, rounds, fuelVars, result, robot, password>>

\* Where the caller is after amp.run returned r, were it to return.
AfterRun(r, next) ==
    CASE r.status = "fault" -> At("panicked", cursor.i)
      [] r.status = "running" -> At("diverged", cursor.i)
      [] OTHER -> next

\* The first for loop: amp.run([*setting]) on the engine at cursor.i; after
\* the last one, `let mut last_signal = 0` and `let mut signal = last_signal`.
FeedbackSetupRun ==
    /\ cursor.at = "setup"
    /\ LET i == cursor.i
           r == Day07Run(TapeOf(heap, amps, i), <<amps[i].setting>>, MaxSteps)
       IN
        /\ heap' = [heap EXCEPT ![amps[i].tape] = Tape(r.mem, r.pc, 0, r.output)]
        /\ given' = [given EXCEPT ![i] = Append(@, amps[i].setting)]
        /\ cursor' = AfterRun(r, IF i < Len(amps) THEN At("setup", i + 1)
                                 ELSE At("halted", 1))
    /\ signal' = 0
    /\ last_signal' = 0
    /\ UNCHANGED <<tapeVars, amps, lastpop, rounds, fuelVars, result, robot, password>>

\* FeedbackHalted, were signal returned in place of last_signal.
FeedbackHaltedReturnsSignal ==
    /\ cursor.at = "halted"
    /\ rounds < MaxRounds
    /\ LET h == Day07Halted(TapeOf(heap, amps, cursor.i)) IN
        /\ cursor' = CASE h.err # "none" -> At("panicked", cursor.i)
                       [] h.err = "none" /\ h.val -> At("returned", cursor.i)
                       [] OTHER -> At("run", cursor.i)
        /\ result' = IF h.err = "none" /\ h.val THEN signal ELSE result
    /\ UNCHANGED <<tapeVars, ampVars, fuelVars, robot, password>>

\* `if amp.halted() { return last_signal; }` on the engine at cursor.i.
FeedbackHalted ==
    /\ cursor.at = "halted"
    /\ rounds < MaxRounds
    /\ LET h == Day07Halted(TapeOf(heap, amps, cursor.i)) IN
        /\ cursor' = CASE h.err # "none" -> At("panicked", cursor.i)
                       [] h.err = "none" /\ h.val -> At("returned", cursor.i)
                       [] OTHER -> At("run", cursor.i)
        /\ result' = IF h.err = "none" /\ h.val THEN last_signal ELSE result
    /\ UNCHANGED <<tapeVars, ampVars, fuelVars, robot, password>>

\* amp.run([signal]) on the engine at cursor.i.
FeedbackRun ==
    /\ cursor.at = "run"
    /\ LET i == cursor.i
           r == Day07Run(TapeOf(heap, amps, i), <<signal>>, MaxSteps)
       IN
        /\ heap' = [heap EXCEPT ![amps[i].tape] = Tape(r.mem, r.pc, 0, r.output)]
        /\ given' = [given EXCEPT ![i] = Append(@, signal)]
        /\ cursor' = AfterRun(r, At("pop", i))
    /\ UNCHANGED <<tapeVars, amps, signal, last_signal, lastpop, rounds, fuelVars,
                   result, robot, password>>

\* `signal = amp.pop_output().expect(..)` on the engine at cursor.i; after the
\* last engine `last_signal = signal`, and the loop starts over with
\* `let mut signal = last_signal`.
FeedbackPop ==
    /\ cursor.at = "pop"
    /\ LET i == cursor.i
           t == TapeOf(heap, amps, i)
       IN
        IF t.output = <<>>
        THEN /\ cursor' = At("panicked", i)
             /\ lastpop' = [lastpop EXCEPT ![i] = None]
             /\ UNCHANGED <<heap, signal, last_signal, rounds>>
        ELSE /\ heap' = [heap EXCEPT ![amps[i].tape] =
                            Tape(t.mem, t.pc, 0, Tail(t.output))]
             /\ lastpop' = [lastpop EXCEPT ![i] = Some(Head(t.output))]
             /\ signal' = Head(t.output)
             /\ last_signal' = IF i = Len(amps) THEN Head(t.output) ELSE last_signal
             /\ rounds' = IF i = Len(amps) THEN rounds + 1 ELSE rounds
             /\ cursor' = IF i = Len(amps) THEN At("halted", 1) ELSE At("halted", i + 1)
    /\ UNCHANGED <<tapeVars, amps, given, fuelVars, result, robot, password>>

NextFeedback ==
    FeedbackCollect \/ FeedbackSetupRun \/ FeedbackHalted \/ FeedbackRun \/ FeedbackPop

SpecFeedback == InitFeedback /\ [][NextFeedback]_vars

----------------------------------------------------------------------------
(* Day 5: gravity_assist_program(tape, input), which runs to completion.   *)
(* The decoder and get, pget, set are those of day 7 (positions are usize: *)
(* a negative value cast to usize is out of range); pc and output are      *)
(* locals of the function, and output is handed back by its return.        *)

\* Day05ExecInput, were an exhausted input to suspend the run.
Day05ExecInputSuspends(t, inp) ==
    LET dst == Day07Get(t.mem, t.pc + 1) IN
    IF dst.err # "none" THEN Ret(t, t.mem, inp, "fault", dst.err) ELSE
    IF inp = <<>> THEN Ret(t, t.mem, inp, "Poll", "none") ELSE
    LET wr == Day07Set(t.mem, dst.val, Head(inp)) IN
    IF wr.err # "none" THEN Ret(t, t.mem, Tail(inp), "fault", wr.err) ELSE
    Cont(wr.mem, t.pc + 2, t.relbase, t.output, Tail(inp))

\* OpCode::Input: dst, then input.next().unwrap(), which panics on None.
Day05ExecInput(t, inp) ==
    LET dst == Day07Get(t.mem, t.pc + 1) IN
    IF dst.err # "none" THEN Ret(t, t.mem, inp, "fault", dst.err) ELSE
    IF inp = <<>> THEN Ret(t, t.mem, inp, "fault", "unwrap on None") ELSE
    LET wr == Day07Set(t.mem, dst.val, Head(inp)) IN
    IF wr.err # "none" THEN Ret(t, t.mem, Tail(inp), "fault", wr.err) ELSE
    Cont(wr.mem, t.pc + 2, t.relbase, t.output, Tail(inp))

\* The body of the loop; "Halt" stands for the break at Eof.
Day05StepTape(t, inp) ==
    LET word == Day07Get(t.mem, t.pc)
        d == Day07OpCodeOf(word.val)
    IN  IF word.err = "none" /\ d.err = "none" /\ d.op = "Input"
        THEN Day05ExecInput(t, inp)
        ELSE Day07StepTape(t, inp)

\* gravity_assist_program is entered with a tape and an input iterator.
InitDay05 ==
    /\ prog \in Day07Programs
    /\ mem = prog
    /\ pc = 0
    /\ relbase = 0
    /\ output = <<>>
    /\ input \in Day07Batches
    /\ status = "running"
    /\ fault = "none"
    /\ fed = input
    /\ steps = 0
    /\ calls = 1
    /\ polls = 0
    /\ popped = <<>>
    /\ iolog = <<>>
    /\ NoAmps
    /\ NoFuel
    /\ cursor = "none"
    /\ result = NoResult
    /\ NoRobot
    /\ NoPassword

\* One iteration; after the break at Eof the function returns output.
Day05Commit(r) ==
    /\ mem' = r.mem
    /\ pc' = r.pc
    /\ relbase' = r.relbase
    /\ output' = r.output
    /\ input' = r.input
    /\ status' = IF r.status = "Halt" THEN "returned" ELSE r.status
    /\ fault' = r.fault
    /\ result' = IF r.status = "Halt" THEN r.output ELSE result
    /\ steps' = steps + 1
    /\ UNCHANGED <<prog, fed, calls, polls, popped, iolog, ampVars, fuelVars, cursor, robot, password>>

Day05Fetching(ops) == status = "running" /\ steps < MaxSteps /\ Day07NextOp \in ops

Day05DoInput == Day05Fetching({"Input"}) /\ Day05Commit(Day05StepTape(Cur, input))

Day05DoOutput == Day05Fetching({"Output"}) /\ Day05Commit(Day05StepTape(Cur, input))

Day05DoEof == Day05Fetching({"Eof"}) /\ Day05Commit(Day05StepTape(Cur, input))

\* The remaining arms, and a fetch or decoding that panics.
Day05DoOther ==
    /\ Day05Fetching({"Add", "Mul", "JumpIfTrue", "JumpIfFalse", "LessThan", "Equals",
                      "invalid"})
    /\ Day05Commit(Day05StepTape(Cur, input))

NextDay05 == Day05DoInput \/ Day05DoOutput \/ Day05DoEof \/ Day05DoOther

SpecDay05 == InitDay05 /\ [][NextDay05]_vars

----------------------------------------------------------------------------
(* The three engines without relative mode side by side: day07's Tape,     *)
(* day05's and day02's gravity_assist_program.  cursor names the engine a  *)
(* behaviour belongs to.                                                   *)

FixedInit(engine, programs, batches, st, ncalls) ==
    /\ prog \in programs
    /\ mem = prog
    /\ pc = 0
    /\ relbase = 0
    /\ output = <<>>
    /\ input \in batches
    /\ status = st
    /\ fault = "none"
    /\ fed = input
    /\ steps = 0
    /\ calls = ncalls
    /\ polls = 0
    /\ popped = <<>>
    /\ iolog = <<>>
    /\ NoAmps
    /\ NoFuel
    /\ cursor = engine
    /\ result = NoResult
    /\ NoRobot
    /\ NoPassword

InitFixed ==
    \/ FixedInit("day07", Day07Programs, {<<>>}, "ready", 0)
    \/ FixedInit("day05", Day07Programs, Day07Batches, "running", 1)
    \/ FixedInit("day02", Day02Programs, {<<>>}, "running", 0)

FixedDay07 == cursor = "day07" /\ NextDay07

FixedDay05 == cursor = "day05" /\ NextDay05

FixedDay02 == cursor = "day02" /\ NextDay02

NextFixed == FixedDay07 \/ FixedDay05 \/ FixedDay02

SpecFixed == InitFixed /\ [][NextFixed]_vars

----------------------------------------------------------------------------
(* Day 9: Tape::from_str on the program text.  The text is a sequence of   *)
(* characters; memory holds machine words, as in the engine on words.      *)

DigitChars == <<"0", "1", "2", "3", "4", "5", "6", "7", "8", "9">>

IsDigitChar(c) == \E d \in 1..10 : DigitChars[d] = c

DigitOfChar(c) == (CHOOSE d \in 1..10 : DigitChars[d] = c) - 1

\* str::split(','): the pieces between the commas, from character i on, cur
\* being the piece under way.
RECURSIVE SplitFrom(_, _, _)
SplitFrom(s, i, cur) ==
    IF i > Len(s) THEN <<cur>>
    ELSE IF s[i] = "," THEN <<cur>> \o SplitFrom(s, i + 1, <<>>)
    ELSE SplitFrom(s, i + 1, Append(cur, s[i]))

Split(s) == SplitFrom(s, 1, <<>>)

\* ParseStr, were the piece trimmed of blanks before it is parsed.
RECURSIVE ParseStrTrimmed(_)
ParseStrTrimmed(piece) ==
    IF piece # <<>> /\ piece[1] \in {" ", "\n"} THEN ParseStrTrimmed(Tail(piece))
    ELSE IF piece # <<>> /\ piece[Len(piece)] \in {" ", "\n"}
    THEN ParseStrTrimmed(SubSeq(piece, 1, Len(piece) - 1))
    ELSE IF piece = <<>> THEN [val |-> IntToWord(0), err |-> "parse"]
    ELSE LET body == IF piece[1] \in {"+", "-"} THEN Tail(piece) ELSE piece IN
         IF body = <<>> \/ \E i \in 1..Len(body) : ~IsDigitChar(body[i])
         THEN [val |-> IntToWord(0), err |-> "parse"]
         ELSE Parse([neg |-> piece[1] = "-",
                     digits |-> [i \in 1..Len(body) |-> DigitOfChar(body[i])]])

\* `i.parse()` on a piece, str::parse::<Integer>: an optional sign, then
\* decimal digits only, at least one, the value within the word.
ParseStr(piece) ==
    IF piece = <<>> THEN [val |-> IntToWord(0), err |-> "parse"]
    ELSE LET body == IF piece[1] \in {"+", "-"} THEN Tail(piece) ELSE piece IN
         IF body = <<>> \/ \E i \in 1..Len(body) : ~IsDigitChar(body[i])
         THEN [val |-> IntToWord(0), err |-> "parse"]
         ELSE Parse([neg |-> piece[1] = "-",
                     digits |-> [i \in 1..Len(body) |-> DigitOfChar(body[i])]])

\* s.split(',').map(|i| i.parse()).collect::<Result<_, _>>()?
CollectParsed(s) ==
    LET parsed == [i \in 1..Len(Split(s)) |-> ParseStr(Split(s)[i])] IN
    IF \E i \in 1..Len(parsed) : parsed[i].err # "none"
    THEN [err |-> "parse", mem |-> <<>>]
    ELSE [err |-> "none", mem |-> [i \in 1..Len(parsed) |-> parsed[i].val]]

TextTokens ==
    { <<"0">>,
      <<"1">>,
      <<"-", "1">>,
      <<"+", "5">>,
      <<"9", "9">>,
      <<"0", "0", "7">>,
      <<"-", "0">>,
      <<>>,
      <<" ", "1">>,
      <<"1", " ">>,
      <<"x">>,
      <<"-">>,
      <<"+">>,
      <<"1", ".", "5">>,
      <<"1", " ", "2">>,
      <<"9", "9", "\n">>,
      <<"2", "1", "4", "7", "4", "8", "3", "6", "4", "8">>,
      <<"9", "2", "2", "3", "3", "7", "2", "0", "3", "6", "8", "5", "4", "7", "7", "5", "8", "0", "7">>,
      <<"9", "2", "2", "3", "3", "7", "2", "0", "3", "6", "8", "5", "4", "7", "7", "5", "8", "0", "8">>,
      <<"-", "9", "2", "2", "3", "3", "7", "2", "0", "3", "6", "8", "5", "4", "7", "7", "5", "8", "0", "8">>,
      <<"-", "9", "2", "2", "3", "3", "7", "2", "0", "3", "6", "8", "5", "4", "7", "7", "5", "8", "0", "9">> }

\* pieces joined by commas.
RECURSIVE Join(_)
Join(pieces) ==
    IF Len(pieces) = 1 THEN pieces[1]
    ELSE pieces[1] \o <<",">> \o Join(Tail(pieces))

MaxTokens == 2

\* The texts handed to from_str: up to MaxTokens pieces, and some of three.
Texts ==
    UNION { { Join(ps) : ps \in [1..n -> TextTokens] } : n \in 1..MaxTokens }
        \cup { Join(ps) : ps \in [1..3 -> { <<"1">>, <<"-", "1">>, <<"x">>, <<>> }] }

\* A text is at hand and from_str has not been called.
InitFromStr ==
    /\ prog \in Texts
    /\ mem = <<>>
    /\ pc = 0
    /\ relbase = 0
    /\ output = <<>>
    /\ input = <<>>
    /\ status = "text"
    /\ fault = "none"
    /\ fed = <<>>
    /\ steps = 0
    /\ calls = 0
    /\ polls = 0
    /\ popped = <<>>
    /\ iolog = <<>>
    /\ NoCaller

\* Tape::from_str(text): Ok(Tape) or the error of the first piece that does
\* not parse.
FromStrCall ==
    /\ status = "text"
    /\ LET r == CollectParsed(prog) IN
        /\ mem' = r.mem
        /\ status' = IF r.err = "none" THEN "ready" ELSE "fault"
        /\ fault' = r.err
    /\ pc' = 0
    /\ relbase' = 0
    /\ output' = <<>>
    /\ UNCHANGED <<input, prog, fed, steps, calls, polls, popped, iolog, ampVars,
                   fuelVars, callVars>>

NextFromStr == FromStrCall

SpecFromStr == InitFromStr /\ [][NextFromStr]_vars

----------------------------------------------------------------------------
(* Day 14: calculate and part2.  Amounts of ORE are counted in units of    *)
(* 10^10: every ORE amount of the reaction sets below is a whole number of *)
(* units, so total_ore is one too, and max_fuel and the comparisons with   *)
(* MAX_ORE = 10^12 = 100 units come out as they do on the plain amounts.   *)

\* struct Chemical.
Chemical(name, amount) == [name |-> name, amount |-> amount]

\* struct Reaction, without the name of its output (the key of the map).
Reaction(amount, inputs) == [output |-> amount, input |-> inputs]

ChemicalNames == {"FUEL", "A", "B", "C", "D", "E"}

\* usize::div_ceil.
DivCeil(a, b) == (a + b - 1) \div b

\* reaction.input with every amount multiplied, in order.
Scaled(inputs, multiplier) ==
    [i \in 1..Len(inputs) |-> Chemical(inputs[i].name, inputs[i].amount * multiplier)]

\* The while loop of calculate: chemicals is the queue, leftovers the map
\* (absent entries are 0), total_ore the sum so far.
RECURSIVE CalculateLoop(_, _, _, _)
CalculateLoop(rs, chemicals, leftovers, total_ore) ==
    IF chemicals = <<>> THEN total_ore ELSE
    LET chemical == Head(chemicals)
        rest == Tail(chemicals)
    IN  IF chemical.name = "ORE"
        THEN CalculateLoop(rs, rest, leftovers, total_ore + chemical.amount)
        ELSE
        LET leftover == leftovers[chemical.name]
            reaction == rs[chemical.name]
        IN  IF leftover >= chemical.amount
            THEN CalculateLoop(rs, rest,
                     [leftovers EXCEPT ![chemical.name] = leftover - chemical.amount],
                     total_ore)
            ELSE
            LET amount == chemical.amount - leftover
                multiplier == DivCeil(amount, reaction.output)
            IN  CalculateLoop(rs, rest \o Scaled(reaction.input, multiplier),
                    [leftovers EXCEPT ![chemical.name] =
                        reaction.output * multiplier - amount],
                    total_ore)

\* calculate(reactions, total_fuel).
Calculate(rs, total_fuel) ==
    CalculateLoop(rs, <<Chemical("FUEL", total_fuel)>>,
                  [n \in ChemicalNames |-> 0], 0)

\* const MAX_ORE, in units of 10^10 ORE.
MAX_ORE == 100

\* `a ORE => n FUEL`.
Direct(a, n) == [c \in {"FUEL"} |-> Reaction(n, <<Chemical("ORE", a)>>)]

\* `a ORE => b A` and `c A => 1 FUEL`.
ViaA(a, b, c) ==
    [x \in {"A", "FUEL"} |->
        IF x = "A" THEN Reaction(b, <<Chemical("ORE", a)>>)
        ELSE Reaction(1, <<Chemical("A", c)>>)]

\* The reactions of test_part1_ex1.
Ex1Reactions ==
    [x \in {"A", "B", "C", "D", "E", "FUEL"} |->
        CASE x = "A" -> Reaction(10, <<Chemical("ORE", 10)>>)
          [] x = "B" -> Reaction(1, <<Chemical("ORE", 1)>>)
          [] x = "C" -> Reaction(1, <<Chemical("A", 7), Chemical("B", 1)>>)
          [] x = "D" -> Reaction(1, <<Chemical("A", 7), Chemical("C", 1)>>)
          [] x = "E" -> Reaction(1, <<Chemical("A", 7), Chemical("D", 1)>>)
          [] x = "FUEL" -> Reaction(1, <<Chemical("A", 7), Chemical("E", 1)>>)]

ReactionSets ==
    { Direct(a, n) : a \in {1, 2, 3, 7, 10, 33, 100, 101}, n \in {1, 2, 3} }
        \cup { ViaA(a, b, c) : a \in {1, 2, 3, 7}, b \in {1, 2, 5}, c \in {1, 3, 7} }
        \cup { Ex1Reactions }

\* part2(input) is entered.
InitPart2 ==
    /\ NoTape
    /\ NoAmps
    /\ reactions \in ReactionSets
    /\ low = 0
    /\ high = 0
    /\ cursor = "entry"
    /\ result = NoResult
    /\ NoRobot
    /\ NoPassword

\* `let ore = calculate(.., 1); let max_fuel = MAX_ORE / ore;` and the two
\* bounds of the search.
Part2Enter ==
    /\ cursor = "entry"
    /\ LET ore == Calculate(reactions, 1)
           max_fuel == MAX_ORE \div ore
       IN  /\ low' = max_fuel
           /\ high' = max_fuel * 2
    /\ cursor' = "while"
    /\ UNCHANGED <<tapeVars, ampVars, reactions, result, robot, password>>

\* One iteration of `while low <= high`.
Part2Iterate ==
    /\ cursor = "while"
    /\ low <= high
    /\ LET mid == (high + low) \div 2
           ore == Calculate(reactions, mid)
       IN  CASE ore = MAX_ORE -> cursor' = "break" /\ UNCHANGED <<low, high>>
             [] ore > MAX_ORE -> high' = mid - 1 /\ UNCHANGED <<low, cursor>>
             [] ore < MAX_ORE -> low' = mid + 1 /\ UNCHANGED <<high, cursor>>
    /\ UNCHANGED <<tapeVars, ampVars, reactions, result, robot, password>>

\* After the loop, by its condition or by the break: `low - 1`.
Part2Return ==
    /\ cursor = "break" \/ (cursor = "while" /\ low > high)
    /\ result' = low - 1
    /\ cursor' = "returned"
    /\ UNCHANGED <<tapeVars, ampVars, reactions, low, high, robot, password>>

NextPart2 == Part2Enter \/ Part2Iterate \/ Part2Return

SpecPart2 == InitPart2 /\ [][NextPart2]_vars

----------------------------------------------------------------------------
(* Day 9: run with no bound on the iterations.  The loop of run has no     *)
(* counter; here steps only ticks between 0 and 1 at every iteration, so   *)
(* that a program that goes round for ever has finitely many states.  The  *)
(* loop is sequential code with no blocking call in it: as long as run has *)
(* not returned, another iteration is executed (weak fairness on the       *)
(* tick, which every iteration makes and nothing else does).               *)

\* Programs that go round for ever without input, output or growth.
JumpsToSelf == <<1105, 1, 0>>

TwoJumps == <<1105, 1, 3, 1105, 1, 0>>

StoresAndJumps == <<1101, 0, 0, 7, 1105, 1, 0, 0>>

Loops == { JumpsToSelf, TwoJumps, StoresAndJumps, <<1106, 0, 0>>, <<6, 3, 3, 0>> }

\* Counts cell 9 down from 3 and halts.
CountsDown == <<1001, 9, -1, 9, 1005, 9, 0, 99, 0, 3>>

LivePrograms ==
    Loops \cup
    { CountsDown, Quine, AddTwoInputs, MulTwoInputsRel, WriteBeyond, ReadBeyond,
      <<3, 0, 1105, 1, 0>>,
      <<3, 8, 4, 8, 1105, 1, 0, 99, 0>>,
      <<104, 5, 3, 0, 104, 6, 3, 1, 99>>,
      <<3, 0, 4, 0, 99>>,
      <<1105, 0, 0, 99>>,
      <<1105, 1, -1>>, <<1105, 1, 7>>, <<3, -1, 99>>,
      <<0>>, <<99>>, <<30099>> }

InitLive ==
    /\ prog \in LivePrograms
    /\ mem = FromStr(prog).mem
    /\ pc = FromStr(prog).pc
    /\ relbase = FromStr(prog).relbase
    /\ output = FromStr(prog).output
    /\ input = <<>>
    /\ status = "ready"
    /\ fault = "none"
    /\ fed = <<>>
    /\ steps = 0
    /\ calls = 0
    /\ polls = 0
    /\ popped = <<>>
    /\ iolog = <<>>
    /\ NoCaller

\* A call of run with a batch of input.
LiveRunCall == \E batch \in Batches : RunCall(batch)

LiveCommit(r) ==
    /\ mem' = r.mem
    /\ pc' = r.pc
    /\ relbase' = r.relbase
    /\ output' = r.output
    /\ input' = IF r.status = "running" THEN r.input ELSE <<>>
    /\ status' = r.status
    /\ fault' = r.fault
    /\ polls' = IF r.status = "Poll" THEN polls + 1 ELSE polls
    /\ steps' = 1 - steps
    /\ UNCHANGED <<prog, fed, calls, popped, iolog, ampVars, fuelVars, callVars>>

\* LiveStep, were run to count its iterations and give up at the second.
LiveStepGivesUp ==
    /\ status = "running"
    /\ IF steps = 0
       THEN LiveCommit(StepTape(Cur, input))
       ELSE /\ status' = "fault"
            /\ fault' = "budget"
            /\ input' = <<>>
            /\ steps' = 0
            /\ UNCHANGED <<mem, pc, relbase, output, polls, prog, fed, calls, popped,
                           iolog, ampVars, fuelVars, callVars>>

\* One iteration of the loop of run, whatever it fetches.
LiveStep ==
    /\ status = "running"
    /\ LiveCommit(StepTape(Cur, input))

\* An iteration of the loop, seen by its tick alone.
LiveTick == status = "running" /\ steps' = 1 - steps

NextLive == LiveRunCall \/ LiveStep

SpecLive == InitLive /\ [][NextLive]_vars /\ WF_steps(LiveTick)

----------------------------------------------------------------------------
(* The instruction at pc read off the state directly, without the engine's *)
(* accessors: the word, its decimal digits, its operands.                  *)

\* The value of the cell at address a: absent cells hold 0.
Cell(m, a) == IF a >= 0 /\ a < Len(m) THEN m[a + 1] ELSE 0

WordAtPc == Cell(mem, pc)

\* The word's low two decimal digits; -1 for a negative word.
OpDigits == IF pc >= 0 /\ WordAtPc >= 0 THEN WordAtPc % 100 ELSE -1

\* The decimal digit of the word's magnitude that gives parameter k's mode.
AbsWordAtPc == IF WordAtPc < 0 THEN -WordAtPc ELSE WordAtPc

ModeDigit(k) ==
    CASE k = 1 -> (AbsWordAtPc \div 100) % 10
      [] k = 2 -> (AbsWordAtPc \div 1000) % 10
      [] k = 3 -> (AbsWordAtPc \div 10000) % 10

\* The three mode digits are modes: 0, 1 or 2 (of a negative word, whose
\* digits come out negated, only 0).
ModesValid ==
    /\ pc >= 0
    /\ \A k \in 1..3 : ModeDigit(k) \in (IF WordAtPc < 0 THEN {0} ELSE 0..2)

\* The address a write-role parameter k designates.
WriteTarget(k) ==
    IF ModeDigit(k) = 2 THEN relbase + Cell(mem, pc + k) ELSE Cell(mem, pc + k)

\* m2 holds the cells of m, and zeros beyond them.
GrownByZeros(m, m2) ==
    /\ Len(m2) >= Len(m)
    /\ \A i \in 1..Len(m2) : m2[i] = IF i <= Len(m) THEN m[i] ELSE 0

\* The step is an iteration of the loop of run.
LoopStep == status = "running" /\ steps' = steps + 1

\* C2: an iteration of the loop makes run return a status only when the word
\* at pc is a Halt (99), or an Input (3) with no input value left; after any
\* other operation the loop goes on (or a fault aborts it).
C2_ReturnsOnlyAtHaltOrInput ==
    [][LoopStep /\ status' \in {"Poll", "Halt"} =>
        \/ OpDigits = 99
        \/ OpDigits = 3 /\ input = <<>>]_vars

\* A run suspended at its second Input after two Output instructions ran
\* without run returning.
C2_Witness ==
    /\ prog = <<104, 5, 3, 0, 104, 6, 3, 1, 99>>
    /\ status = "Poll"
    /\ output = <<5, 6>>
    /\ calls = 1

\* C3: an iteration that returns Poll leaves pc at the Input instruction,
\* relbase and the output queue as they were, and memory as it was but for
\* added zero cells; an iteration at an Input instruction advances pc by 2
\* exactly when it stored the next input value at the write target, and else
\* leaves pc alone.
C3_PollLeavesTapeAtInput ==
    [][LoopStep =>
        /\ status' = "Poll" =>
            /\ OpDigits = 3
            /\ pc' = pc
            /\ relbase' = relbase
            /\ output' = output
            /\ GrownByZeros(mem, mem')
        /\ OpDigits = 3 =>
            /\ pc' \in {pc, pc + 2}
            /\ pc' = pc + 2 <=>
                /\ input # <<>>
                /\ status' = "running"
                /\ input' = Tail(input)
                /\ Cell(mem', WriteTarget(1)) = Head(input)]_vars

\* A run suspended at an Input whose operand cell lay beyond the end of
\* memory: the fetch of the operand grew memory by one zero cell.
C3_Witness ==
    /\ prog = <<104, 9, 203>>
    /\ status = "Poll"
    /\ pc = 2
    /\ mem = <<104, 9, 203, 0>>
    /\ output = <<9>>

\* C4: an iteration of the loop ends in Halt exactly when the word at pc
\* decodes and is a Halt, in Poll exactly when it decodes, is an Input and no
\* input value is left, and in a fault exactly when a fault was raised; a
\* status is never returned together with a fault.
C4_StatusIffHaltOrNoInput ==
    [][LoopStep =>
        /\ status' \in {"running", "Poll", "Halt", "fault"}
        /\ status' = "Halt" <=> (ModesValid /\ OpDigits = 99)
        /\ status' = "Poll" <=> (ModesValid /\ OpDigits = 3 /\ input = <<>>)
        /\ status' = "fault" <=> fault' # "none"
        /\ fault' \in {"none", "address", "opcode", "param_mode"}]_vars

\* A run that consumed its only input value and suspended at the next Input.
C4_Witness ==
    /\ prog = AddTwoInputs
    /\ status = "Poll"
    /\ fault = "none"
    /\ fed = <<8>>
    /\ pc = 2

\* C5: in gravity_assist_program every iteration that does not panic is the
\* reference step: at word 1 (2) it stores mem[mem[pc+1]] + (*) mem[mem[pc+2]]
\* at address mem[pc+3], changes no other cell and advances pc by 4; at 99 it
\* stops with memory and pc as they are; and the four test programs end as
\* the tests say.
C5_Day02ReferenceTrace ==
    /\ [][status = "running" /\ steps' = steps + 1 /\ status' # "fault" =>
            \/ /\ mem[pc + 1] = 1
               /\ status' = "running"
               /\ pc' = pc + 4
               /\ mem' = [mem EXCEPT ![mem[pc + 4] + 1] =
                            mem[mem[pc + 2] + 1] + mem[mem[pc + 3] + 1]]
            \/ /\ mem[pc + 1] = 2
               /\ status' = "running"
               /\ pc' = pc + 4
               /\ mem' = [mem EXCEPT ![mem[pc + 4] + 1] =
                            mem[mem[pc + 2] + 1] * mem[mem[pc + 3] + 1]]
            \/ /\ mem[pc + 1] = 99
               /\ status' = "done"
               /\ pc' = pc
               /\ mem' = mem]_vars
    /\ [](status = "done" =>
            /\ prog = <<1, 0, 0, 0, 99>> => mem = <<2, 0, 0, 0, 99>>
            /\ prog = <<2, 3, 0, 3, 99>> => mem = <<2, 3, 0, 6, 99>>
            /\ prog = <<2, 4, 4, 5, 99, 0>> => mem = <<2, 4, 4, 5, 99, 9801>>
            /\ prog = <<1, 1, 1, 4, 99, 5, 6, 0, 99>>
                => mem = <<30, 1, 1, 4, 2, 5, 6, 0, 99>>)
    /\ [](prog \in Day02Tests => status # "fault")

\* The self-modifying test program has run to its Halt: the 2 it stored at
\* address 4 was executed as Mul.
C5_Witness ==
    /\ prog = <<1, 1, 1, 4, 99, 5, 6, 0, 99>>
    /\ status = "done"
    /\ pc = 8
    /\ mem[1] = 30

\* C6: the day 9 quine, run with no input, never suspends and never faults,
\* and once halted its output queue is the program itself, word for word.
C6_QuineOutputsItself ==
    prog = Quine /\ fed = <<>> =>
        /\ status \notin {"Poll", "fault"}
        /\ Len(output) <= Len(Quine)
        /\ \A i \in 1..Len(output) : output[i] = Quine[i]
        /\ status = "Halt" => output = Quine

C6_Witness ==
    /\ prog = Quine
    /\ fed = <<>>
    /\ status = "Halt"
    /\ Len(output) = 16
    /\ output[16] = 99

\* Exact arithmetic on decimal numerals (sequences of digits, most
\* significant first), by the schoolbook methods.
RECURSIVE Reverse(_)
Reverse(s) == IF s = <<>> THEN <<>> ELSE Append(Reverse(Tail(s)), Head(s))

DigitAt(x, i) == IF i \in 1..Len(x) THEN x[i] ELSE 0

RECURSIVE DecAddFrom(_, _, _, _, _)
DecAddFrom(x, y, i, n, carry) ==
    IF i > n THEN <<>>
    ELSE <<(DigitAt(x, i) + DigitAt(y, i) + carry) % 10>>
            \o DecAddFrom(x, y, i + 1, n, (DigitAt(x, i) + DigitAt(y, i) + carry) \div 10)

DecAdd(xs, ys) ==
    Reverse(DecAddFrom(Reverse(xs), Reverse(ys), 1,
                       (IF Len(xs) > Len(ys) THEN Len(xs) ELSE Len(ys)) + 1, 0))

RECURSIVE DecColumn(_, _, _, _)
DecColumn(x, y, k, i) ==
    IF i < 1 THEN 0 ELSE DigitAt(x, i) * DigitAt(y, k + 1 - i) + DecColumn(x, y, k, i - 1)

RECURSIVE DecMulFrom(_, _, _, _, _)
DecMulFrom(x, y, k, n, carry) ==
    IF k > n THEN <<>>
    ELSE <<(DecColumn(x, y, k, k) + carry) % 10>>
            \o DecMulFrom(x, y, k + 1, n, (DecColumn(x, y, k, k) + carry) \div 10)

DecMul(xs, ys) ==
    Reverse(DecMulFrom(Reverse(xs), Reverse(ys), 1, Len(xs) + Len(ys), 0))

\* The exact product of two tokens, and the exact sum of two tokens of the
\* same sign, as tokens.
ExactProduct(a, b) ==
    [neg |-> a.neg # b.neg /\ \E i \in 1..Len(DecMul(a.digits, b.digits)) :
                                    DecMul(a.digits, b.digits)[i] # 0,
     digits |-> DecMul(a.digits, b.digits)]

ExactSum(a, b) == [neg |-> a.neg, digits |-> DecAdd(a.digits, b.digits)]

\* The numeral 1219070632396864.
TokProduct == BigTok(<<1, 2, 1, 9, 0, 7, 0, 6, 3, 2, 3, 9, 6, 8, 6, 4>>)

\* What an arithmetic program must have done when it is over: output the
\* exact result and nothing else when that fits the word; fault on overflow
\* only when it does not.
ExactOutcome(exact) ==
    /\ status = "Halt" /\ Parse(exact).err = "none" => output = <<Parse(exact).val>>
    /\ status = "fault" => fault = "overflow" /\ Parse(exact).err # "none"

\* C7: Add and Mul results and immediate operands are exact beyond the
\* 32-bit range.  Program 1102,34915192,34915192,7,4,7,99,0 never faults and
\* halts with the single output 1219070632396864; program
\* 104,1125899906842624,99 never faults and halts with the single output
\* 1125899906842624.  For every pair of operands, immediate or read from
\* memory, a halted Mul or Add program has output exactly the product or sum
\* whenever that fits the 64-bit word, and an Output program has output
\* exactly its literal.
C7_LargeNumbersExact ==
    /\ prog = MulProgram(Tok34915192, Tok34915192) =>
          /\ status # "fault"
          /\ status = "Halt" =>
                /\ output = << <<64, 8, 0, 0, 189, 84, 4, 0>> >>
                /\ output = <<Parse(TokProduct).val>>
    /\ prog = OutputProgram(TokTwoTo50) =>
          /\ status # "fault"
          /\ status = "Halt" =>
                /\ output = << <<0, 0, 0, 0, 0, 0, 4, 0>> >>
                /\ output = <<Parse(TokTwoTo50).val>>
    /\ \A a \in WideOperands, b \in WideOperands :
          /\ prog = MulProgram(a, b) => ExactOutcome(ExactProduct(a, b))
          /\ prog = MulPositionProgram(a, b) => ExactOutcome(ExactProduct(a, b))
          /\ prog = AddProgram(a, b) /\ a.neg = b.neg => ExactOutcome(ExactSum(a, b))
    /\ \A v \in WideOperands :
          prog = OutputProgram(v) =>
              /\ status # "fault"
              /\ status = "Halt" => output = <<Parse(v).val>>

\* The product program has halted with its one output, a word whose bytes
\* above the low four are not all zero.
C7_Witness ==
    /\ prog = MulProgram(Tok34915192, Tok34915192)
    /\ status = "Halt"
    /\ Len(output) = 1
    /\ output[1][5] = 189
    /\ ~WordIsSmall(output[1])

ProbeValues == {-1, 5}

\* C8: in every memory the engine reaches, at each address a at or beyond its
\* length a read returns 0 without a fault, a write of v succeeds, and reads
\* of a then return v, also after a write elsewhere, until a is written
\* again; and the two programs that write and read beyond their end output
\* what they wrote, and 0 where nothing was written.
C8_AutoExtension ==
    /\ \A a \in Len(mem)..(Len(mem) + MaxProbe) :
        /\ Get(mem, a).err = "none"
        /\ Get(mem, a).val = 0
        /\ \A v \in ProbeValues :
            LET w == Set(mem, a, v) IN
                /\ w.err = "none"
                /\ Get(w.mem, a).err = "none"
                /\ Get(w.mem, a).val = v
                /\ Get(Get(w.mem, a).mem, a).val = v
                /\ \A b \in {0, a - 1, a + 1, a + MaxProbe} \ {a} :
                    Get(Set(w.mem, b, v + 1).mem, a).val = v
                /\ Get(Set(w.mem, a, v + 1).mem, a).val = v + 1
    /\ prog = WriteBeyond /\ Returned => status = "Halt" /\ output = <<7>>
    /\ prog = ReadBeyond /\ Returned => status = "Halt" /\ output = <<0, 0>>

\* The program that stored 3 + 4 at address 20, beyond its 7 words, has read
\* it back and halted.
C8_Witness ==
    /\ prog = WriteBeyond
    /\ status = "Halt"
    /\ Len(mem) = 21
    /\ mem[21] = 7
    /\ output = <<7>>

\* The operation the word at pc denotes, 0 if it does not decode.
OpAtPc == IF ModesValid /\ OpDigits \in (1..9) \cup {99} THEN OpDigits ELSE 0

\* The parameters the operation reads, and the one it writes.
ReadParams == IF OpAtPc \in {1, 2, 5, 6, 7, 8} THEN {1, 2}
              ELSE IF OpAtPc \in {4, 9} THEN {1} ELSE {}

WriteParams == IF OpAtPc \in {1, 2, 7, 8} THEN {3}
               ELSE IF OpAtPc = 3 /\ input # <<>> THEN {1} ELSE {}

\* The address read-role parameter k reads its value from.
ReadAddress(k) ==
    CASE ModeDigit(k) = 0 -> Cell(mem, pc + k)
      [] ModeDigit(k) = 1 -> pc + k
      [] ModeDigit(k) = 2 -> relbase + Cell(mem, pc + k)

\* The iteration at pc makes an access at a negative address.
NegativeAccess ==
    \/ pc < 0
    \/ \E k \in ReadParams : ReadAddress(k) < 0
    \/ \E k \in WriteParams : WriteTarget(k) < 0

\* C9: get and set fault on every negative address and leave memory as it
\* is; an iteration of the loop ends in an address fault exactly when it
\* makes an access at a negative address (the fetch at a negative pc, a
\* Position or Relative read, a write target), and then no cell has changed
\* its value and pc, relbase and the output queue are as before.
C9_NegativeAddressFaults ==
    /\ [](\A a \in (-MaxProbe)..(-1) :
            /\ Get(mem, a).err = "address"
            /\ Get(mem, a).mem = mem
            /\ \A v \in ProbeValues :
                Set(mem, a, v).err = "address" /\ Set(mem, a, v).mem = mem)
    /\ [][LoopStep =>
            /\ NegativeAccess <=> (status' = "fault" /\ fault' = "address")
            /\ NegativeAccess =>
                /\ GrownByZeros(mem, mem')
                /\ pc' = pc
                /\ relbase' = relbase
                /\ output' = output]_vars

\* A Relative read at relbase + 0 = -5 has aborted the run.
C9_Witness ==
    /\ prog = <<109, -5, 204, 0, 99>>
    /\ status = "fault"
    /\ fault = "address"
    /\ relbase = -5
    /\ pc = 2

\* The low two decimal digits of the word at pc name no operation.
NoSuchOperation == pc >= 0 /\ AbsWordAtPc % 100 \notin (1..9) \cup {99}

\* C10 as claimed, for the words that are not negative: a word whose low two
\* digits name no operation aborts the run with an invalid-opcode fault.
C10_Claimed_InvalidOpcodeFault ==
    [][LoopStep /\ NoSuchOperation /\ WordAtPc >= 0 =>
        status' = "fault" /\ fault' = "opcode"]_vars

\* C10 as amended: a word whose low two digits name no operation aborts the
\* run, pc and the tape's cells unchanged: with an invalid-opcode fault when
\* its three mode digits are valid, and with an invalid-parameter-mode fault
\* otherwise; never a halt, a skip or a wrap-around.
C10_InvalidWordFaults ==
    [][LoopStep /\ NoSuchOperation =>
        /\ status' = "fault"
        /\ fault' = IF ModesValid THEN "opcode" ELSE "param_mode"
        /\ pc' = pc
        /\ relbase' = relbase
        /\ output' = output
        /\ GrownByZeros(mem, mem')]_vars

\* pc ran past the end of a program without Halt: the 0 of the cell the
\* fetch added is an invalid opcode.
C10_Witness ==
    /\ prog = <<1101, 1, 1, 0>>
    /\ status = "fault"
    /\ fault = "opcode"
    /\ pc = 4
    /\ mem = <<2, 1, 1, 0, 0>>

\* A mode digit of the word at pc is none of 0, 1, 2.
BadModeDigit == \E k \in 1..3 : ModeDigit(k) \notin 0..2

\* C11: an iteration that fetches a word whose hundreds, thousands or
\* ten-thousands digit is not 0, 1 or 2 ends in an invalid-parameter-mode
\* fault, whatever the operation and however few parameters it declares, and
\* executes nothing: pc, relbase, output and every cell are as before (30099
\* does not halt, 3004 does not output); a word that is not negative ends in
\* that fault only then.
C11_AllModeDigitsValidated ==
    [][LoopStep /\ pc >= 0 =>
        /\ BadModeDigit =>
            /\ status' = "fault"
            /\ fault' = "param_mode"
            /\ pc' = pc
            /\ relbase' = relbase
            /\ output' = output
            /\ GrownByZeros(mem, mem')
        /\ WordAtPc >= 0 /\ fault' = "param_mode" => BadModeDigit]_vars

\* The word 30099 was fetched and the run aborted instead of halting.
C11_Witness ==
    /\ prog = <<30099>>
    /\ steps = 1
    /\ status = "fault"
    /\ fault = "param_mode"
    /\ pc = 0

\* C12: an iteration faults exactly when it makes an access at a negative
\* address or fetches a word with an invalid mode digit or an unknown opcode
\* (a word that denotes no operation, as every negative word); the fault is then reported as one of the three kinds, never
\* together with a status, and the faulting iteration leaves pc, relbase and
\* the output queue as they were and every cell with its value (reads made
\* before the fault may have added zero cells); after a fault nothing
\* changes any more: no later instruction executes.
C12_FaultAbortsRun ==
    /\ [][LoopStep =>
            /\ status' = "fault" <=> (NegativeAccess \/ OpAtPc = 0)
            /\ status' = "fault" =>
                /\ fault' \in {"address", "opcode", "param_mode"}
                /\ pc' = pc
                /\ relbase' = relbase
                /\ output' = output
                /\ GrownByZeros(mem, mem')]_vars
    /\ [][status = "fault" => UNCHANGED vars]_vars
    /\ [](status = "fault" <=> fault # "none")

\* An Add whose operands were read and whose write target is -2 has aborted
\* the run: memory, pc and output are those of the loaded program, and the
\* Halt behind it was not reached.
C12_Witness ==
    /\ prog = <<1101, 1, 1, -2, 99>>
    /\ status = "fault"
    /\ fault = "address"
    /\ mem = prog
    /\ pc = 0
    /\ steps = 1

\* The operation numbered n, and the mode a digit stands for.
OperationNumbered(n) ==
    [k \in (1..9) \cup {99} |->
        CASE k = 1 -> "Add" [] k = 2 -> "Mul" [] k = 3 -> "Input"
          [] k = 4 -> "Output" [] k = 5 -> "JumpIfTrue" [] k = 6 -> "JumpIfFalse"
          [] k = 7 -> "LessThan" [] k = 8 -> "Equals" [] k = 9 -> "AdjustRelBase"
          [] k = 99 -> "Eof"][n]

ModeOfDigit(digit) == <<"Position", "Immediate", "Relative">>[digit + 1]

\* C13: when the word w at pc is not negative and decodes, the decoded
\* operation is the one numbered w mod 100 and the mode of parameter k is
\* the digit (w / 10^(k+1)) mod 10: 0 Position, 1 Immediate, 2 Relative.
C13_DecodeByDigits ==
    pc >= 0 /\ WordAtPc >= 0 /\ OpCodeOf(WordAtPc).err = "none" =>
        /\ WordAtPc % 100 \in (1..9) \cup {99}
        /\ OpCodeOf(WordAtPc).op = OperationNumbered(WordAtPc % 100)
        /\ (WordAtPc \div 100) % 10 \in 0..2
        /\ OpCodeOf(WordAtPc).p1 = ModeOfDigit((WordAtPc \div 100) % 10)
        /\ (WordAtPc \div 1000) % 10 \in 0..2
        /\ OpCodeOf(WordAtPc).p2 = ModeOfDigit((WordAtPc \div 1000) % 10)
        /\ (WordAtPc \div 10000) % 10 \in 0..2
        /\ OpCodeOf(WordAtPc).p3 = ModeOfDigit((WordAtPc \div 10000) % 10)

\* The word 21002 was executed as a Mul with its first parameter in Position
\* mode, its second Immediate and its third Relative: 21002 * 0 was stored
\* at relbase + 0.
C13_Witness ==
    /\ prog = <<21002>>
    /\ steps = 1
    /\ status = "running"
    /\ pc = 4
    /\ mem = <<0, 0, 0, 0>>

\* The addresses up to MaxProbe cells beyond the end of memory, and those of
\* them a parameter is probed at: the ones of the program text and the ones
\* around the end of memory.
Probed(m) == 0..(Len(m) + MaxProbe)

ProbedParams(m) ==
    { x \in Probed(m) : x <= Len(prog) + MaxProbe \/ x >= Len(m) - MaxProbe }

\* C14: on every tape the engine reaches, for a parameter stored at address
\* x, pget returns mem[mem[x]] in Position mode, mem[x] in Immediate mode
\* and mem[relbase + mem[x]] in Relative mode (cells beyond the end reading
\* as 0), without a fault, whenever the address it reads from is not
\* negative and at most MaxProbe cells beyond the end of memory.
C14_PgetByMode ==
    \A x \in ProbedParams(mem) :
        /\ Pget(mem, relbase, x, "Immediate").err = "none"
        /\ Pget(mem, relbase, x, "Immediate").val = Cell(mem, x)
        /\ Cell(mem, x) \in Probed(mem) =>
            /\ Pget(mem, relbase, x, "Position").err = "none"
            /\ Pget(mem, relbase, x, "Position").val = Cell(mem, Cell(mem, x))
        /\ relbase + Cell(mem, x) \in Probed(mem) =>
            /\ Pget(mem, relbase, x, "Relative").err = "none"
            /\ Pget(mem, relbase, x, "Relative").val = Cell(mem, relbase + Cell(mem, x))

\* The halted product program: relbase is 21, and the parameter at address
\* 13 (value 1) read the product at 22 in Relative mode, the 20 of cell 1 in
\* Position mode and itself in Immediate mode.
C14_Witness ==
    /\ prog = MulTwoInputsRel
    /\ status = "Halt"
    /\ relbase = 21
    /\ output = <<64>>
    /\ Pget(mem, relbase, 13, "Relative").val = 64
    /\ Pget(mem, relbase, 13, "Immediate").val = 1
    /\ Pget(mem, relbase, 13, "Position").val = 20

\* The value read-role parameter k reads, and the value the instruction at pc
\* stores.
ReadValue(k) == Cell(mem, ReadAddress(k))

StoredValue ==
    CASE OpAtPc = 1 -> ReadValue(1) + ReadValue(2)
      [] OpAtPc = 2 -> ReadValue(1) * ReadValue(2)
      [] OpAtPc = 3 -> Head(input)
      [] OpAtPc = 7 -> IF ReadValue(1) < ReadValue(2) THEN 1 ELSE 0
      [] OpAtPc = 8 -> IF ReadValue(1) = ReadValue(2) THEN 1 ELSE 0

\* The instruction at pc stores a value: Add, Mul, LessThan, Equals, or Input
\* with an input value at hand.
Stores == WriteParams # {}

\* The cells of m2 other than a hold what they hold in m.
SameBut(m, m2, a) ==
    /\ Len(m2) >= Len(m)
    /\ \A i \in 0..(Len(m2) - 1) : i # a => Cell(m2, i) = Cell(m, i)

\* C15: an Add, Mul, LessThan, Equals or Input that makes no access at a
\* negative address goes through, whatever the mode of its write-role
\* parameter (Immediate included), and the one cell it changes is the cell
\* at address mem[x] when that mode is Position or Immediate and at
\* relbase + mem[x] when it is Relative, x being the address of the
\* parameter: the target is not dereferenced again.
C15_WriteTargetByMode ==
    [][LoopStep /\ Stores /\ ~NegativeAccess =>
        \A k \in WriteParams :
            /\ status' = "running"
            /\ ModeDigit(k) \in {0, 1} =>
                /\ Cell(mem', Cell(mem, pc + k)) = StoredValue
                /\ SameBut(mem, mem', Cell(mem, pc + k))
            /\ ModeDigit(k) = 2 =>
                /\ Cell(mem', relbase + Cell(mem, pc + k)) = StoredValue
                /\ SameBut(mem, mem', relbase + Cell(mem, pc + k))]_vars

\* An Add with its write-role parameter in Immediate mode, 10001,2,1,6, has
\* stored mem[2] + mem[1] = 3 at address 6, beyond the end of the program,
\* not at mem[6].
C15_Witness ==
    /\ prog = <<10001, 2, 1, 6, 99>>
    /\ steps = 1
    /\ status = "running"
    /\ pc = 4
    /\ mem = <<10001, 2, 1, 6, 99, 0, 3>>

\* C16: an Add, Mul, LessThan or Equals that goes through stores at its write
\* target read(a) + read(b), read(a) * read(b), 1 or 0 as read(a) < read(b),
\* 1 or 0 as read(a) = read(b), and advances pc by exactly 4; no other cell
\* changes its value, and relbase, the output queue and the remaining input
\* are as before.
C16_ArithmeticAndCompare ==
    [][LoopStep /\ OpAtPc \in {1, 2, 7, 8} /\ status' = "running" =>
        /\ OpAtPc = 1 => Cell(mem', WriteTarget(3)) = ReadValue(1) + ReadValue(2)
        /\ OpAtPc = 2 => Cell(mem', WriteTarget(3)) = ReadValue(1) * ReadValue(2)
        /\ OpAtPc = 7 =>
              Cell(mem', WriteTarget(3)) = (IF ReadValue(1) < ReadValue(2) THEN 1 ELSE 0)
        /\ OpAtPc = 8 =>
              Cell(mem', WriteTarget(3)) = (IF ReadValue(1) = ReadValue(2) THEN 1 ELSE 0)
        /\ pc' = pc + 4
        /\ SameBut(mem, mem', WriteTarget(3))
        /\ relbase' = relbase
        /\ output' = output
        /\ input' = input]_vars

\* The input 8 was compared with 8 by an Equals in Position mode, 1 was
\* stored at address 9 and output.
C16_Witness ==
    /\ prog = <<3, 9, 8, 9, 10, 9, 4, 9, 99, -1, 8>>
    /\ fed = <<8>>
    /\ status = "Halt"
    /\ Cell(mem, 9) = 1
    /\ output = <<1>>

\* C17: a JumpIfTrue that goes through sets pc to read(b) when read(a) is
\* not 0 and to pc + 3 when it is; a JumpIfFalse sets pc to read(b) when
\* read(a) is 0 and to pc + 3 when it is not; both go through unless a read
\* is at a negative address, and neither changes the value of a cell,
\* relbase, the output queue or the remaining input.
C17_ConditionalJumps ==
    [][LoopStep /\ OpAtPc \in {5, 6} =>
        /\ status' = "running" <=> ~NegativeAccess
        /\ status' = "running" =>
            /\ OpAtPc = 5 /\ ReadValue(1) # 0 => pc' = ReadValue(2)
            /\ OpAtPc = 5 /\ ReadValue(1) = 0 => pc' = pc + 3
            /\ OpAtPc = 6 /\ ReadValue(1) = 0 => pc' = ReadValue(2)
            /\ OpAtPc = 6 /\ ReadValue(1) # 0 => pc' = pc + 3
            /\ GrownByZeros(mem, mem')
            /\ relbase' = relbase
            /\ output' = output
            /\ input' = input]_vars

\* The input 0 made the JumpIfFalse at pc 2 jump to address 9 (the value of
\* cell 15), over the Add at pc 5: the 0 of cell 13 was output.
C17_Witness ==
    /\ prog = <<3, 12, 6, 12, 15, 1, 13, 14, 13, 4, 13, 99, -1, 0, 1, 9>>
    /\ fed = <<0>>
    /\ status = "Halt"
    /\ pc = 11
    /\ output = <<0>>
    /\ steps = 4

\* The value an AdjustRelBase at the pc of tape t reads, 0 when the word
\* there is no AdjustRelBase.
AdjustOperand(t) ==
    LET w == Cell(t.mem, t.pc)
        x == Cell(t.mem, t.pc + 1)
    IN  IF t.pc < 0 \/ w < 0 \/ w % 100 # 9 THEN 0
        ELSE CASE (w \div 100) % 10 = 0 -> Cell(t.mem, x)
               [] (w \div 100) % 10 = 1 -> x
               [] (w \div 100) % 10 = 2 -> Cell(t.mem, t.relbase + x)
               [] OTHER -> 0

\* The sum of the operands of the AdjustRelBase instructions executed when
\* tape t is run on input inp until run returns.
RECURSIVE AdjustSum(_, _, _)
AdjustSum(t, inp, fuel) ==
    IF fuel = 0 THEN 0 ELSE
    LET r == StepTape(t, inp) IN
    IF r.status # "running" THEN 0
    ELSE AdjustOperand(t)
            + AdjustSum(Tape(r.mem, r.pc, r.relbase, r.output), r.input, fuel - 1)

\* C18: relbase is 0 on the tape as built; the only step that changes it is
\* an AdjustRelBase iteration, which adds read(a) to it and advances pc by
\* 2 leaving cell values, output and input alone; a run call, a suspension
\* and a resumption keep it; and whenever run has returned relbase is the sum
\* of the operands of all AdjustRelBase instructions executed since
\* construction.
C18_RelBaseIsSumOfAdjustments ==
    /\ [](status = "ready" => relbase = 0)
    /\ [][relbase' # relbase => LoopStep /\ OpAtPc = 9]_vars
    /\ [][LoopStep /\ OpAtPc = 9 /\ status' = "running" =>
            /\ relbase' = relbase + ReadValue(1)
            /\ pc' = pc + 2
            /\ GrownByZeros(mem, mem')
            /\ output' = output
            /\ input' = input]_vars
    /\ [](Returned => relbase = AdjustSum(FromStr(prog), fed, MaxSteps + 1))

\* The product program moved relbase by 20 before its first suspension and
\* by 1 before its second; resumed twice, it halted with relbase 21.
C18_Witness ==
    /\ prog = MulTwoInputsRel
    /\ status = "Halt"
    /\ polls = 2
    /\ calls = 3
    /\ relbase = 21

\* The values the pop_output calls returned, in order.
RECURSIVE PoppedValues(_)
PoppedValues(ps) ==
    IF ps = <<>> THEN <<>>
    ELSE (IF Head(ps).some THEN <<Head(ps).val>> ELSE <<>>) \o PoppedValues(Tail(ps))

\* The step is a call of pop_output.
PopStep == Len(popped') = Len(popped) + 1

\* C19: on the day 7 tape, an Output iteration that goes through appends the
\* value it reads (mem[mem[pc+1]], or mem[pc+1] when Immediate) to the back
\* of the output queue and advances pc by 2, changing nothing else; the
\* queue changes in no other step but a pop_output, which removes the oldest
\* value and returns it, or returns None and leaves the queue empty; a run
\* call leaves the queue as it is; and whenever run has returned, the values
\* popped so far followed by the queue are the outputs of the program on
\* the input supplied so far, in execution order, none lost or duplicated.
C19_OutputQueueIsFifo ==
    /\ [][LoopStep /\ OpDigits = 4 /\ status' = "running" =>
            /\ ModeDigit(1) = 0 => output' = Append(output, Cell(mem, Cell(mem, pc + 1)))
            /\ ModeDigit(1) = 1 => output' = Append(output, Cell(mem, pc + 1))
            /\ pc' = pc + 2
            /\ UNCHANGED <<mem, relbase, input, popped, iolog>>]_vars
    /\ [][output' # output => (LoopStep /\ OpDigits = 4) \/ PopStep]_vars
    /\ [][PopStep =>
            /\ output = <<>> => output' = <<>> /\ popped' = Append(popped, None)
            /\ output # <<>> =>
                /\ output' = Tail(output)
                /\ popped' = Append(popped, Some(Head(output)))
            /\ UNCHANGED <<mem, pc, status, fault>>]_vars
    /\ [](Returned =>
            PoppedValues(popped) \o output
                = Day07Run(Tape(prog, 0, 0, <<>>), fed, MaxSteps + 1).output)

\* The echo program was given 8 and 0 in one call; the 8 was popped, the
\* tape was resumed with another 8, and the queue now holds 0 and 8 behind
\* the popped 8.
C19_Witness ==
    /\ prog = Day07Echo
    /\ status = "Poll"
    /\ fed = <<8, 0, 8>>
    /\ calls = 2
    /\ popped = <<Some(8)>>
    /\ output = <<0, 8>>

\* The values of the batch not yet consumed are the last ones supplied.
InputIsRestOfBatch ==
    /\ Len(input) <= Len(fed)
    /\ input = SubSeq(fed, Len(fed) - Len(input) + 1, Len(fed))

\* C20: an Input iteration that goes through takes the first value left of
\* the batch, stores it at its write target and nowhere else, drops it from
\* the batch and advances pc by 2; no other instruction touches the batch;
\* so as long as the tape has not halted the batch left is the tail of what
\* was supplied, and the k-th Input of a call stores the k-th value of the
\* call's batch: the program that stores two inputs at addresses 0 and 1,
\* given both in one call, ends with them there in the order supplied.
C20_InputsInBatchOrder ==
    /\ [][LoopStep /\ OpAtPc = 3 /\ status' = "running" =>
            /\ input # <<>>
            /\ input' = Tail(input)
            /\ Cell(mem', WriteTarget(1)) = Head(input)
            /\ SameBut(mem, mem', WriteTarget(1))
            /\ pc' = pc + 2
            /\ relbase' = relbase
            /\ output' = output]_vars
    /\ [][LoopStep /\ OpAtPc # 3 /\ status' = "running" => input' = input]_vars
    /\ [](status = "running" /\ polls = calls - 1 => InputIsRestOfBatch)
    /\ [](prog = <<104, 5, 3, 0, 104, 6, 3, 1, 99>> /\ status = "Halt" /\ calls = 1 =>
            /\ Len(fed) >= 2
            /\ Cell(mem, 0) = fed[1]
            /\ Cell(mem, 1) = fed[2])

\* Given 0 and 8 in one call, the program stored 0 at address 0 by its first
\* Input and 8 at address 1 by its second, and halted.
C20_Witness ==
    /\ prog = <<104, 5, 3, 0, 104, 6, 3, 1, 99>>
    /\ calls = 1
    /\ fed = <<0, 8>>
    /\ status = "Halt"
    /\ Cell(mem, 0) = 0
    /\ Cell(mem, 1) = 8
    /\ output = <<5, 6>>

----------------------------------------------------------------------------
(* The Io closure of days 11 and 13.                                       *)

\* The last invocation recorded after the step.
LastIo == iolog'[Len(iolog')]

\* The step records exactly one more invocation of the closure.
OneMoreIo == Len(iolog') = Len(iolog) + 1 /\ SubSeq(iolog', 1, Len(iolog)) = iolog

\* C21: with an Io closure, an iteration of the loop invokes the closure
\* exactly once when it executes an Input or an Output, within that iteration
\* (before the next fetch), and no other step invokes it, so invocations are in
\* execution order.  For an Input, Some(v) stores v at the write target and
\* moves pc by 2, and None makes run return Poll with pc still at the Input.
\* For an Output the closure receives the operand's value and whatever it
\* returns, None included, the loop goes on at pc + 2.
C21_ClosureOncePerIo ==
    [][/\ iolog' # iolog => LoopStep /\ OpAtPc \in {3, 4} /\ OneMoreIo
       /\ LoopStep /\ OpAtPc = 3 /\ status' # "fault" =>
            /\ OneMoreIo
            /\ LastIo.io = "Input"
            /\ LastIo.ret.some =>
                 /\ Cell(mem', WriteTarget(1)) = LastIo.ret.val
                 /\ pc' = pc + 2
                 /\ status' = "running"
            /\ ~LastIo.ret.some =>
                 /\ status' = "Poll"
                 /\ pc' = pc
                 /\ \A a \in 0..(Len(mem) - 1) : Cell(mem', a) = Cell(mem, a)
       /\ LoopStep /\ OpAtPc = 4 /\ status' # "fault" =>
            /\ OneMoreIo
            /\ LastIo.io = "Output"
            /\ LastIo.arg = ReadValue(1)
            /\ status' = "running"
            /\ pc' = pc + 2]_vars

\* An output answered by None did not suspend the run: it went on to take 8
\* from the closure, hand it back, and halt.
C21_Witness ==
    /\ prog = <<104, 5, 3, 0, 4, 0, 99>>
    /\ status = "Halt"
    /\ calls = 1
    /\ iolog = <<IoOutput(5, None), IoInput(Some(8)), IoOutput(8, None)>>
    /\ mem[1] = 8

----------------------------------------------------------------------------
(* Cloned tapes (day 7).                                                   *)

\* The step is a run or pop_output call on the i-th engine.
CalledOn(i) == given'[i] # given[i] \/ lastpop'[i] # lastpop[i]

\* C22: engines obtained by cloning a Tape share nothing.  Whatever the order
\* of clone, run and pop_output calls, a call on one engine changes no tape but
\* that engine's own: the mem, pc and output of every other engine and of the
\* tape they were cloned from are as before, the engine's tape being an object
\* other than theirs; and cloning changes no tape already there, the clone
\* starting as a copy of the original.
C22_ClonesShareNothing ==
    [][/\ \A i \in 1..Len(amps) : CalledOn(i) =>
            /\ amps[i].tape # 1
            /\ \A j \in 1..Len(amps) : j # i => amps[j].tape # amps[i].tape
            /\ \A ref \in 1..Len(heap) : ref # amps[i].tape => heap'[ref] = heap[ref]
            /\ Len(heap') = Len(heap)
       /\ Len(amps') > Len(amps) =>
            /\ \A ref \in 1..Len(heap) : heap'[ref] = heap[ref]
            /\ TapeOf(heap', amps', Len(amps')) = heap[1]]_vars

\* Two clones of the echo program driven apart: the first has echoed an 8 and
\* had it popped, the second has only taken a 0; the original is untouched.
C22_Witness ==
    /\ Len(amps) = 2
    /\ heap[1] = Tape(Day07Echo, 0, 0, <<>>)
    /\ given = << <<(<<8>>)>>, <<(<<8, 0>>)>> >>
    /\ lastpop = << <<Some(8)>>, <<>> >>
    /\ TapeOf(heap, amps, 1).output = <<>>
    /\ TapeOf(heap, amps, 1).mem[9] = 8
    /\ TapeOf(heap, amps, 2).output = <<8, 0>>
    /\ TapeOf(heap, amps, 2).mem[9] = 0

----------------------------------------------------------------------------
(* The feedback loop of amplifiers (day 7).                                *)

\* The value the step hands to the run call on the engine at cursor.i.
FedNow == given'[cursor.i][Len(given'[cursor.i])]

\* What the chain has for the i-th engine: the value last popped from the
\* engine before it; for the first engine the last engine's, and 0 before any
\* round is complete.
ChainValue(i) ==
    IF i > 1 THEN lastpop[i - 1].val
    ELSE IF rounds = 0 THEN 0 ELSE lastpop[Len(amps)].val

\* C23: in find_signal_feedback_loop the engines are built once and keep their
\* state from round to round; they are called one at a time in the order of
\* the settings, only the engine at the caller's position changing; an engine's
\* first input is its setting and every later one is the value most recently
\* popped from the engine before it (for the first engine: 0 in the first
\* round, then the last engine's output of the round before); the function
\* returns when it finds the word at an engine's pc to be a Halt, and what it
\* returns is the last engine's output of the last round completed (0 when no
\* round was completed).
C23_FeedbackLoopHandsOff ==
    /\ [][/\ amps # <<>> => amps' = amps /\ Len(heap') = Len(heap) /\ heap'[1] = heap[1]
          /\ \A i \in 1..Len(amps) :
                TapeOf(heap', amps', i) # TapeOf(heap, amps, i) =>
                    cursor.i = i /\ cursor.at \in {"setup", "run", "pop"}
          /\ \A i \in 1..Len(amps) :
                given'[i] # given[i] =>
                    /\ cursor.i = i
                    /\ given'[i] = Append(given[i], FedNow)
                    /\ cursor.at = "setup" <=> given[i] = <<>>
                    /\ FedNow = IF given[i] = <<>> THEN amps[i].setting ELSE ChainValue(i)
          /\ cursor'.at = "returned" /\ cursor.at # "returned" =>
                /\ LET t == TapeOf(heap, amps, cursor.i) IN Cell(t.mem, t.pc) % 100 = 99
                /\ result' = IF rounds = 0 THEN 0 ELSE lastpop[Len(amps)].val]_vars
    /\ [](\A i, j \in 1..Len(amps) :
            i < j => Len(given[j]) <= Len(given[i]) /\ Len(given[i]) <= Len(given[j]) + 1)

\* The first example of the tests with settings 9,8,7,6,5: five rounds, then
\* the first engine is found halted and 139629729 is returned.
C23_Witness ==
    /\ heap[1].mem = FeedbackEx1
    /\ cursor = At("returned", 1)
    /\ rounds = 5
    /\ Len(amps) = 5
    /\ \A i \in 1..5 : amps[i].setting = 10 - i /\ Len(given[i]) = 6
    /\ lastpop[5] = Some(139629729)
    /\ result = 139629729

----------------------------------------------------------------------------
(* Run to completion on an exhaustible input (day 5).                      *)

\* C24: gravity_assist_program never suspends.  An iteration that fetches an
\* Input when the input iterator is exhausted aborts the run (the unwrap
\* panics, unless reading the operand has panicked already) and no output is
\* handed back; each Output iteration appends its value to the outputs so far;
\* the function returns exactly when it fetches Halt, and what it returns is
\* the outputs in the order produced.  Nothing is returned before that, or
\* after an abort.
C24_ExhaustedInputAborts ==
    /\ [](status \in {"running", "returned", "fault"})
    /\ [](status # "returned" => result = NoResult)
    /\ [](status = "returned" => result = output /\ Cell(mem, pc) % 100 = 99)
    /\ [][/\ LoopStep /\ Day07NextOp = "Input" /\ input = <<>> =>
                status' = "fault" /\ result' = NoResult /\ output' = output
          /\ LoopStep /\ Day07NextOp = "Output" /\ status' # "fault" =>
                /\ Len(output') = Len(output) + 1
                /\ SubSeq(output', 1, Len(output)) = output
                /\ status' = "running"
          /\ LoopStep /\ Day07NextOp # "Output" => output' = output
          /\ LoopStep /\ Day07NextOp = "Eof" => status' = "returned"
          /\ status' = "returned" /\ status = "running" => Day07NextOp = "Eof"]_vars

\* A 5 was output, then the Input found no input: the run is aborted and the
\* 5 is never handed back.
C24_Witness ==
    /\ prog = Day07OutputsAroundInputs
    /\ fed = <<>>
    /\ status = "fault"
    /\ fault = "unwrap on None"
    /\ output = <<5>>
    /\ result = NoResult
    /\ pc = 2

----------------------------------------------------------------------------
(* Construction from text (day 9).                                         *)

\* The positions of the commas of the text, and the number of pieces.
Commas(s) == { i \in 1..Len(s) : s[i] = "," }

Pieces(s) == Cardinality(Commas(s)) + 1

\* The position of the k-th comma; 0 before the first piece and Len + 1 after
\* the last.
CommaAt(s, k) ==
    IF k = 0 THEN 0
    ELSE IF k > Cardinality(Commas(s)) THEN Len(s) + 1
    ELSE CHOOSE i \in Commas(s) : Cardinality({ j \in Commas(s) : j < i }) = k - 1

\* The k-th comma-separated token.
Piece(s, k) == SubSeq(s, CommaAt(s, k - 1) + 1, CommaAt(s, k) - 1)

\* The digits of a token after its sign, if any.
Unsigned(tok) == IF tok # <<>> /\ tok[1] \in {"+", "-"} THEN Tail(tok) ELSE tok

RECURSIVE Significant(_)
Significant(ds) == IF Len(ds) > 1 /\ ds[1] = "0" THEN Significant(Tail(ds)) ELSE ds

\* a <= b for digit strings of one length.
RECURSIVE DigitsLeq(_, _)
DigitsLeq(a, b) ==
    IF a = <<>> THEN TRUE
    ELSE IF a[1] # b[1] THEN DigitOfChar(a[1]) < DigitOfChar(b[1])
    ELSE DigitsLeq(Tail(a), Tail(b))

\* 2^63 - 1 and 2^63.
MaxDigits ==
    <<"9", "2", "2", "3", "3", "7", "2", "0", "3", "6",
      "8", "5", "4", "7", "7", "5", "8", "0", "7">>

MinDigits ==
    <<"9", "2", "2", "3", "3", "7", "2", "0", "3", "6",
      "8", "5", "4", "7", "7", "5", "8", "0", "8">>

\* The token is a signed integer of the word: [+-]?[0-9]+ within the range.
ValidToken(tok) ==
    /\ Unsigned(tok) # <<>>
    /\ \A i \in 1..Len(Unsigned(tok)) : IsDigitChar(Unsigned(tok)[i])
    /\ LET sig == Significant(Unsigned(tok)) IN
        \/ Len(sig) < Len(MaxDigits)
        \/ /\ Len(sig) = Len(MaxDigits)
           /\ DigitsLeq(sig, IF tok[1] = "-" THEN MinDigits ELSE MaxDigits)

\* The value of a valid token of at most nine digits.
RECURSIVE DigitsValue(_)
DigitsValue(ds) ==
    IF ds = <<>> THEN 0
    ELSE 10 * DigitsValue(SubSeq(ds, 1, Len(ds) - 1)) + DigitOfChar(ds[Len(ds)])

TokenValue(tok) ==
    IF tok[1] = "-" THEN -DigitsValue(Unsigned(tok)) ELSE DigitsValue(Unsigned(tok))

\* C25: Tape::from_str fails exactly when some comma-separated token of the
\* text is not a signed integer of the word (an empty token, a padded one, a
\* bare sign, one out of range), and then no tape exists; otherwise the tape
\* has one cell per token, holding the token's value, pc = 0, relbase = 0 and
\* no output.
C25_FromStrAllOrNothing ==
    status # "text" =>
        /\ status \in {"ready", "fault"}
        /\ status = "fault" <=> \E k \in 1..Pieces(prog) : ~ValidToken(Piece(prog, k))
        /\ status = "fault" => mem = <<>> /\ fault = "parse"
        /\ status = "ready" =>
            /\ Len(mem) = Pieces(prog)
            /\ \A k \in 1..Pieces(prog) :
                /\ Len(Significant(Unsigned(Piece(prog, k)))) <= 9 =>
                        mem[k] = IntToWord(TokenValue(Piece(prog, k)))
                /\ Unsigned(Piece(prog, k)) = MaxDigits =>
                        mem[k] = <<255, 255, 255, 255, 255, 255, 255, 127>>
                /\ Piece(prog, k) = <<"-">> \o MinDigits =>
                        mem[k] = <<0, 0, 0, 0, 0, 0, 0, 128>>
            /\ pc = 0
            /\ relbase = 0
            /\ output = <<>>

\* "1, 1" does not load: the second token is padded and there is no tape
\* holding the first.
C25_Witness ==
    /\ prog = <<"1", ",", " ", "1">>
    /\ status = "fault"
    /\ fault = "parse"
    /\ mem = <<>>

----------------------------------------------------------------------------
(* The program counter at the fetch (day 9).                               *)

\* The jump at pc is taken.
JumpTaken ==
    \/ OpAtPc = 5 /\ ReadValue(1) # 0
    \/ OpAtPc = 6 /\ ReadValue(1) = 0

\* C26: an iteration fetches its instruction word exactly when pc is not
\* negative, and then pc is an address of the memory as the fetch leaves it:
\* when pc was beyond its end memory is extended with zeros up to pc, and the
\* word fetched being 0 the iteration ends in the invalid-opcode fault.  A jump
\* that is taken stores the value of its second parameter in pc whatever that
\* value is, negative or beyond the end of memory, and the run goes on; with pc
\* negative the next iteration is aborted by the address fault of the fetch,
\* pc and the memory left as they were.
C26_PcAtFetch ==
    [][LoopStep =>
        /\ pc >= 0 => pc < Len(mem') /\ Len(mem') >= Len(mem)
        /\ pc >= Len(mem) => /\ GrownByZeros(mem, mem')
                             /\ Len(mem') = pc + 1
                             /\ status' = "fault"
                             /\ fault' = "opcode"
        /\ pc >= 0 /\ status' = "fault" /\ fault' = "address" => NegativeAccess
        /\ pc < 0 => /\ status' = "fault"
                     /\ fault' = "address"
                     /\ pc' = pc
                     /\ mem' = mem
        /\ JumpTaken /\ ~NegativeAccess => pc' = ReadValue(2) /\ status' = "running"]_vars

\* A JumpIfTrue stored -1 in pc and the run went on to the next fetch, which
\* aborted it.
C26_Witness ==
    /\ prog = <<1105, 1, -1>>
    /\ steps = 2
    /\ pc = -1
    /\ status = "fault"
    /\ fault = "address"
    /\ mem = prog

----------------------------------------------------------------------------
(* How memory grows (day 9).                                               *)

\* The number of parameter cells the operation at pc reads.
ParamCells ==
    CASE OpAtPc \in {1, 2, 7, 8} -> 3
      [] OpAtPc \in {5, 6} -> 2
      [] OpAtPc \in {3, 4, 9} -> 1
      [] OTHER -> 0

\* The addresses the iteration at pc accesses when it goes through.
Accessed ==
    {pc} \cup { pc + k : k \in 1..ParamCells }
         \cup { ReadAddress(k) : k \in ReadParams }
         \cup { WriteTarget(k) : k \in WriteParams }

TopAccessed == CHOOSE a \in Accessed : \A b \in Accessed : b <= a

\* Addresses around the end of memory m.
EndProbes(m) == { a \in {0, Len(m) - 1, Len(m), Len(m) + 1, Len(m) + MaxProbe} : a >= 0 }

\* m2 is m grown to n cells, the new ones 0 but for the cell at address a.
GrownTo(m, m2, n, a) ==
    /\ Len(m2) = n
    /\ SubSeq(m2, 1, Len(m)) = m
    /\ \A b \in Len(m)..(n - 1) : b # a => m2[b + 1] = 0

\* C29: in every memory the engine reaches, a get or a set at an address a at
\* or beyond the length leaves a memory of exactly a + 1 cells, the old cells as
\* they were and the new ones 0, but for cell a after a set, which holds the
\* value written; a get or set below the length leaves the length as it is
\* (and a get leaves the memory as it is).  So an iteration that goes through
\* leaves memory as long as its highest access requires and no longer.
C29_GrowsToAddressPlusOne ==
    /\ [](\A a \in EndProbes(mem) :
            /\ a >= Len(mem) =>
                /\ GrownTo(mem, Get(mem, a).mem, a + 1, -1)
                /\ \A v \in ProbeValues :
                    /\ GrownTo(mem, Set(mem, a, v).mem, a + 1, a)
                    /\ Set(mem, a, v).mem[a + 1] = v
            /\ a < Len(mem) =>
                /\ Get(mem, a).mem = mem
                /\ \A v \in ProbeValues : Len(Set(mem, a, v).mem) = Len(mem))
    /\ [][LoopStep /\ status' # "fault" =>
            Len(mem') = IF TopAccessed >= Len(mem) THEN TopAccessed + 1 ELSE Len(mem)]_vars

\* The two reads beyond the end of the program have grown memory to the
\* higher address read plus one, every new cell 0.
C29_Witness ==
    /\ prog = ReadBeyond
    /\ status = "Halt"
    /\ Len(mem) = 38
    /\ SubSeq(mem, 1, Len(prog)) = prog
    /\ \A b \in Len(prog)..(Len(mem) - 1) : mem[b + 1] = 0
    /\ output = <<0, 0>>

----------------------------------------------------------------------------
(* Memory as the instruction stream (day 9).                               *)

\* The day 2 example whose Add stores a Mul at address 4.
StoresItsMul == <<1, 1, 1, 4, 99, 5, 6, 0, 99>>

\* A cell of the instruction at pc no longer holds what the program text had.
Rewritten == \E k \in 0..ParamCells : Cell(mem, pc + k) # Cell(prog, pc + k)

\* The write target of the instruction at pc is a cell one of its operands is
\* read from, or a cell of the instruction itself.
Aliased ==
    \E k \in WriteParams :
        WriteTarget(k) \in { ReadAddress(j) : j \in ReadParams } \cup (pc..(pc + ParamCells))

\* How far pc moves over the operation at pc when it is no jump.
OpLength ==
    CASE OpAtPc \in {1, 2, 7, 8} -> 4
      [] OpAtPc \in {3, 4, 9} -> 2
      [] OTHER -> 0

\* C30: what an iteration executes is the word memory holds at pc when it is
\* fetched, with the operands memory holds then, also when earlier
\* instructions have written those cells: the operation is the one that word
\* denotes (the Add of 1,1,1,4,99,5,6,0,99 turns the 99 at address 4 into a 2,
\* which is then executed as a Mul and stores 30 at address 0).  Within an
\* instruction the operands are read before the result is written: when the
\* write target is a cell an operand is read from, or a cell of the
\* instruction itself, the value stored is computed from the values before the
\* write, and pc moves on by the length the fetched word had.
C30_MemoryIsInstructionStream ==
    /\ [][LoopStep /\ status' # "fault" /\ (Rewritten \/ Aliased) =>
            /\ OpAtPc # 0
            /\ OpAtPc = 99 <=> status' = "Halt"
            /\ OpAtPc \in {1, 2, 3, 4, 7, 8, 9} /\ status' = "running" =>
                    pc' = pc + OpLength
            /\ OpAtPc \in {1, 2, 7, 8} =>
                    Cell(mem', WriteTarget(3)) = StoredValue
            /\ OpAtPc = 4 =>
                    output' = Append(output, ReadValue(1))
            /\ OpAtPc = 5 => pc' = IF ReadValue(1) # 0 THEN ReadValue(2) ELSE pc + 3
            /\ OpAtPc = 6 => pc' = IF ReadValue(1) = 0 THEN ReadValue(2) ELSE pc + 3]_vars
    /\ [](prog = StoresItsMul =>
            /\ steps >= 1 => Cell(mem, 4) = 2
            /\ steps >= 2 => Cell(mem, 0) = 30
            /\ status = "Halt" => steps >= 3 /\ pc = 8
                                    /\ mem = <<30, 1, 1, 4, 2, 5, 6, 0, 99>>)

\* The stored 2 has been executed as a Mul.
C30_Witness ==
    /\ prog = StoresItsMul
    /\ status = "Halt"
    /\ steps = 3
    /\ mem = <<30, 1, 1, 4, 2, 5, 6, 0, 99>>

----------------------------------------------------------------------------
(* The fuel a trillion ORE makes (day 14).                                 *)

FuelCap == 1000

\* calculate is non-decreasing in the fuel amount, up to FuelCap.
NonDecreasing(rs) == \A f \in 0..FuelCap : Calculate(rs, f) <= Calculate(rs, f + 1)

\* Some fuel amount up to FuelCap costs more than MAX_ORE.
Bounded(rs) == Calculate(rs, FuelCap) > MAX_ORE

\* The largest fuel amount whose ore cost is at most MAX_ORE.
LargestAffordable(rs) ==
    CHOOSE f \in 0..FuelCap :
        Calculate(rs, f) <= MAX_ORE /\ Calculate(rs, f + 1) > MAX_ORE

\* C28 as claimed: for reactions whose ore cost does not decrease with the
\* fuel amount, part2 returns the largest fuel amount that costs at most
\* MAX_ORE, also when some amount costs MAX_ORE exactly.
C28_Claimed_Part2ReturnsLargest ==
    cursor = "returned" /\ NonDecreasing(reactions) /\ Bounded(reactions) =>
        result = LargestAffordable(reactions)

\* With `10^10 ORE => 1 FUEL` 100 FUEL cost MAX_ORE exactly; the search
\* breaks at mid = 100 with low still 100 and part2 returns 99.
C28_Witness ==
    /\ reactions = Direct(1, 1)
    /\ cursor = "returned"
    /\ low = 100
    /\ Calculate(reactions, 100) = MAX_ORE
    /\ LargestAffordable(reactions) = 100
    /\ result = 99

----------------------------------------------------------------------------
\* The iteration at pc is one of the three events that end a call of run:
\* Halt, an Input with nothing left to serve it, or a fault.
EndsCall ==
    \/ OpAtPc = 99
    \/ OpAtPc = 3 /\ input = <<>>
    \/ OpAtPc = 0
    \/ NegativeAccess

\* C27: run imposes no instruction limit.  A call on a program whose
\* execution never reaches Halt, an unserved Input or a fault (1105,1,0 and
\* the other programs of Loops) never returns: the call stays in the loop
\* for ever, and a loop of two jumps keeps visiting both of them.  A call
\* on any other program returns, and it returns at the first iteration that
\* is one of the three events: an iteration ends the call exactly when it
\* is one of them.
C27_RunHasNoInstructionLimit ==
    /\ [](prog \in Loops /\ calls >= 1 => status = "running")
    /\ [](prog = TwoJumps /\ calls >= 1 => <>(pc = 0) /\ <>(pc = 3))
    /\ (prog \notin Loops /\ status = "running") ~> Returned
    /\ [][status = "running" => (Returned' <=> EndsCall)]_vars

\* The loop of two jumps back at its second jump after a full round, the
\* call still running.
C27_Witness ==
    /\ prog = TwoJumps
    /\ status = "running"
    /\ calls = 1
    /\ pc = 3
    /\ steps = 1

----------------------------------------------------------------------------
\* C31: Halt does not advance pc.  Whenever run has returned Halt, pc is
\* still at the Halt word; a further call of run with any batch of input
\* returns Halt again at its first iteration, with memory, pc, relbase and
\* the output queue as they were and none of the batch consumed; in the
\* state machine the call enters the loop on the unchanged tape, its one
\* iteration returns Halt and leaves the tape as it is, and the batch is
\* dropped with the iterator.
C31_HaltIsAbsorbing ==
    /\ [](status = "Halt" => OpAtPc = 99)
    /\ [](status = "Halt" =>
            \A batch \in Batches :
                /\ StepTape(Cur, batch).status = "Halt"
                /\ StepTape(Cur, batch).mem = mem
                /\ StepTape(Cur, batch).pc = pc
                /\ StepTape(Cur, batch).relbase = relbase
                /\ StepTape(Cur, batch).output = output
                /\ StepTape(Cur, batch).input = batch
                /\ Run(Cur, batch, MaxSteps) = StepTape(Cur, batch))
    /\ [][status = "Halt" /\ calls' = calls + 1 =>
            /\ status' = "running"
            /\ UNCHANGED <<mem, pc, relbase, output>>]_vars
    /\ [][LoopStep /\ OpAtPc = 99 =>
            /\ status' = "Halt"
            /\ input' = <<>>
            /\ UNCHANGED <<mem, pc, relbase, output>>]_vars

\* The echo program halted in its first call after 3 iterations; a second
\* call with a batch has returned Halt after one more iteration, the tape as
\* the first call left it.
C31_Witness ==
    /\ prog = <<3, 0, 4, 0, 99>>
    /\ status = "Halt"
    /\ calls = 2
    /\ steps = 4
    /\ pc = 4
    /\ mem = <<8, 0, 4, 0, 99>>
    /\ output = <<8>>

----------------------------------------------------------------------------
\* C32: no negative instruction word decodes to an operation.  Division and
\* remainder truncate toward zero, so of a word w < 0 the opcode is minus
\* the low two digits of |w| (never positive) and each mode digit is minus
\* the digit of |w| (never positive): the decode fails, with the
\* invalid-parameter-mode fault when some mode digit of |w| is not 0 and
\* with the invalid-opcode fault otherwise, and the iteration that fetches
\* the word aborts the run where it stands; -1 and -99 are invalid opcodes,
\* not Halt.
C32_NegativeWordsFault ==
    /\ [](pc >= 0 /\ WordAtPc < 0 =>
            /\ TruncRem(WordAtPc, 100) = -(AbsWordAtPc % 100)
            /\ TruncRem(WordAtPc, 100) <= 0
            /\ TruncRem(TruncDiv(WordAtPc, 100), 10) = -ModeDigit(1)
            /\ TruncRem(TruncDiv(WordAtPc, 1000), 10) = -ModeDigit(2)
            /\ TruncRem(TruncDiv(WordAtPc, 10000), 10) = -ModeDigit(3)
            /\ OpCodeOf(WordAtPc).op = "invalid"
            /\ OpCodeOf(WordAtPc).err =
                IF \E k \in 1..3 : ModeDigit(k) # 0 THEN "param_mode" ELSE "opcode")
    /\ [][LoopStep /\ pc >= 0 /\ WordAtPc < 0 =>
            /\ status' = "fault"
            /\ fault' = OpCodeOf(WordAtPc).err
            /\ UNCHANGED <<mem, pc, relbase, output>>]_vars
    /\ [](prog \in { WordProgram(-1), WordProgram(-99) } /\ steps >= 1 =>
            status = "fault" /\ fault = "opcode")

\* The word -99 was fetched and the run aborted with the invalid-opcode
\* fault instead of halting.
C32_Witness ==
    /\ prog = WordProgram(-99)
    /\ steps = 1
    /\ status = "fault"
    /\ fault = "opcode"
    /\ pc = 0

----------------------------------------------------------------------------
\* The digit Rust computes for parameter k's mode (negated for a negative
\* word), whether it is a mode, and the highest parameter whose digit is
\* not.
SignedModeDigit(k) == IF WordAtPc < 0 THEN -ModeDigit(k) ELSE ModeDigit(k)

ModeInvalid(k) == SignedModeDigit(k) \notin 0..2

HighestInvalid == CHOOSE k \in 1..3 : ModeInvalid(k) /\ \A j \in (k+1)..3 : ~ModeInvalid(j)

OpcodeInvalid == WordAtPc < 0 \/ WordAtPc % 100 \notin (1..9) \cup {99}

\* C33: decoding validates the three mode digits, third, then second, then
\* first, before it looks at the opcode.  An iteration that fetches a word
\* in which a mode digit and the low two digits are both invalid (300,
\* 30000) ends in the invalid-parameter-mode fault; the invalid-opcode fault
\* is raised only for words whose three mode digits are valid; and the
\* digit the failed decode reports is that of the highest invalid place,
\* the word itself when only the opcode is invalid.
C33_ModesBeforeOpcode ==
    /\ [][LoopStep /\ pc >= 0 /\ OpcodeInvalid /\ (\E k \in 1..3 : ModeInvalid(k)) =>
            status' = "fault" /\ fault' = "param_mode"]_vars
    /\ [](fault = "opcode" => pc >= 0 /\ OpcodeInvalid /\ \A k \in 1..3 : ~ModeInvalid(k))
    /\ [](pc >= 0 /\ (\E k \in 1..3 : ModeInvalid(k)) =>
            PanicValue(WordAtPc) = SignedModeDigit(HighestInvalid))
    /\ [](pc >= 0 /\ OpcodeInvalid /\ (\A k \in 1..3 : ~ModeInvalid(k)) =>
            PanicValue(WordAtPc) = WordAtPc)
    /\ [](prog \in { <<300>>, <<30000>> } /\ steps >= 1 =>
            status = "fault" /\ fault = "param_mode")

\* The word 300, with the mode digit 3 and the low digits 00, was fetched:
\* the run aborted with the invalid-parameter-mode fault.
C33_Witness ==
    /\ prog = <<300>>
    /\ steps = 1
    /\ status = "fault"
    /\ fault = "param_mode"
    /\ PanicValue(WordAtPc) = 3

----------------------------------------------------------------------------
\* The word the tape was loaded with, and its five low decimal digits.
LoadedWord == prog[1]

LowDigits == LoadedWord % 100000

\* The tape after the first iteration on the program whose word has only
\* the low digits.
LowStep == StepTape(FromStr(WordProgram(LowDigits)), <<>>)

\* C35: the decimal digits of an instruction word above the ten-thousands
\* place are ignored.  Every word w >= 0 at pc decodes as w mod 100000 does,
\* to the same operation and modes or to the same failure; and the first
\* iteration on the tape w,1,1,1 ends as the first iteration on
\* (w mod 100000),1,1,1 does: same status or fault, same pc, relbase and
\* output, same cells but for the word itself.  100099 executes as Halt.
C35_HighDigitsIgnored ==
    /\ pc >= 0 /\ WordAtPc >= 0 => OpCodeOf(WordAtPc) = OpCodeOf(WordAtPc % 100000)
    /\ steps = 1 /\ LoadedWord >= 0 =>
            /\ status = LowStep.status
            /\ fault = LowStep.fault
            /\ pc = LowStep.pc
            /\ relbase = LowStep.relbase
            /\ output = LowStep.output
            /\ Len(mem) = Len(LowStep.mem)
            /\ mem[1] = LoadedWord
            /\ \A i \in 2..Len(mem) : mem[i] = LowStep.mem[i]
    /\ prog = WordProgram(100099) /\ steps >= 1 => status = "Halt" /\ pc = 0

\* The word 1000021002 was executed as 21002 is: a Mul that stored 1 * 1
\* at relbase + 1 and moved pc by 4.
C35_Witness ==
    /\ prog = WordProgram(1000021002)
    /\ steps = 1
    /\ status = "running"
    /\ pc = 4
    /\ mem = <<1000021002, 1, 1, 1>>

----------------------------------------------------------------------------
\* C34: an Input instruction computes its write target before it asks for
\* input and range-checks it only when storing.  An iteration that fetches
\* an Input with no input left returns Poll whatever the target, negative
\* included, having read the operand cell (memory reaches at least to
\* pc + 1) and nothing else changed; with a value available and a negative
\* target it ends in the address fault, and with a target that is not
\* negative the value is stored there.  So a tape that polled at an Input
\* with a negative target faults only in a later call that brings a value.
C34_InputTargetCheckedAtStore ==
    /\ [][LoopStep /\ OpAtPc = 3 =>
            /\ input = <<>> =>
                /\ status' = "Poll"
                /\ fault' = "none"
                /\ pc' = pc
                /\ relbase' = relbase
                /\ output' = output
                /\ GrownByZeros(mem, mem')
                /\ Len(mem') >= pc + 2
            /\ input # <<>> /\ WriteTarget(1) < 0 =>
                /\ status' = "fault"
                /\ fault' = "address"
                /\ pc' = pc
                /\ GrownByZeros(mem, mem')
            /\ input # <<>> /\ WriteTarget(1) >= 0 =>
                /\ status' = "running"
                /\ pc' = pc + 2
                /\ mem'[WriteTarget(1) + 1] = Head(input)]_vars
    /\ [](status = "Poll" /\ WriteTarget(1) < 0 =>
            /\ StepTape(Cur, <<>>).status = "Poll"
            /\ \A v \in InputValues :
                /\ StepTape(Cur, <<v>>).status = "fault"
                /\ StepTape(Cur, <<v>>).fault = "address")

\* The program 3,-1,99 was called with no input and polled; the second call
\* brought a value and ended in the address fault.
C34_Witness ==
    /\ prog = <<3, -1, 99>>
    /\ calls = 2
    /\ polls = 1
    /\ steps = 2
    /\ status = "fault"
    /\ fault = "address"
    /\ pc = 0
    /\ mem = prog

----------------------------------------------------------------------------
(* The instruction at pc of a tape without relative mode, read off the     *)
(* state: what it is and which addresses executing it touches.             *)

InRange(a) == a >= 0 /\ a < Len(mem)

\* The operation number of the word at pc, 0 if the word is out of reach or
\* does not decode: day02 knows the words 1, 2 and 99; day05 and day07 the
\* operations 1..8 and 99 with three mode digits 0 or 1.
FixedOp ==
    IF ~InRange(pc) THEN 0
    ELSE IF cursor = "day02"
    THEN (IF WordAtPc \in {1, 2, 99} THEN WordAtPc ELSE 0)
    ELSE IF /\ WordAtPc >= 0
            /\ \A k \in 1..3 : ModeDigit(k) \in 0..1
            /\ WordAtPc % 100 \in (1..8) \cup {99}
    THEN WordAtPc % 100
    ELSE 0

FixedArity ==
    IF FixedOp \in {1, 2, 7, 8} THEN 3
    ELSE IF FixedOp \in {5, 6} THEN 2
    ELSE IF FixedOp \in {3, 4} THEN 1 ELSE 0

FixedReadParams ==
    IF FixedOp \in {1, 2, 5, 6, 7, 8} THEN {1, 2} ELSE IF FixedOp = 4 THEN {1} ELSE {}

\* Parameter k is read through the address in its cell (day02 has no modes:
\* every parameter is).
FixedIndirect(k) == cursor = "day02" \/ ModeDigit(k) = 0

\* The addresses the iteration at pc touches when all of them are in range:
\* the word, its parameter cells, the cells read through them, the cell
\* written.
FixedTouched ==
    {pc}
    \cup { pc + k : k \in 1..FixedArity }
    \cup { Cell(mem, pc + k) : k \in { j \in FixedReadParams : FixedIndirect(j) } }
    \cup (IF FixedOp \in {1, 2, 7, 8} THEN { Cell(mem, pc + 3) } ELSE {})
    \cup (IF FixedOp = 3 /\ input # <<>> THEN { Cell(mem, pc + 1) } ELSE {})

FixedStep == status = "running" /\ steps' = steps + 1

\* C36: in the engines without relative mode (day07's Tape, day05's and
\* day02's tapes) memory never grows: it has the length of the program text
\* in every state; an iteration that would touch an address outside
\* 0..len-1 (the fetch, a parameter cell, a cell read through a parameter,
\* the write target) aborts the run with the tape as it was, and no other
\* iteration ends in the address fault.
C36_FixedMemoryNeverGrows ==
    /\ [](Len(mem) = Len(prog))
    /\ [][FixedStep /\ (\E a \in FixedTouched : ~InRange(a)) =>
            /\ status' = "fault"
            /\ fault' = "address"
            /\ mem' = mem
            /\ pc' = pc
            /\ output' = output]_vars
    /\ [][FixedStep /\ fault' = "address" => \E a \in FixedTouched : ~InRange(a)]_vars

\* day07's tape 1101,1,1,7,99 of five cells: the Add that writes at address
\* 7 aborted the run, memory as loaded.
C36_Witness ==
    /\ cursor = "day07"
    /\ prog = <<1101, 1, 1, 7, 99>>
    /\ status = "fault"
    /\ fault = "address"
    /\ mem = prog
    /\ pc = 0
    /\ steps = 1

----------------------------------------------------------------------------
(* C37: in robot (day 11) the closure takes the outputs of the engine in   *)
(* strict alternation, beginning with a paint: the 1st, 3rd, ... output    *)
(* sets the colour of the current cell and the robot stays where it is,    *)
(* the 2nd, 4th, ... output turns the heading a quarter turn (0 to the     *)
(* left, 1 to the right) and moves the robot exactly one cell in the new   *)
(* heading.  Every input is answered with the colour of the current cell   *)
(* (0 for a cell that is not in the map), never with None, so the run      *)
(* never returns Poll; an output other than 0 and 1 aborts.                *)

\* The unit vector of a heading; y grows downwards.
Heading(dir) ==
    CASE dir = "Up" -> <<0, -1>>
      [] dir = "Down" -> <<0, 1>>
      [] dir = "Left" -> <<-1, 0>>
      [] dir = "Right" -> <<1, 0>>

\* A quarter turn of a vector to the left and to the right, y downwards.
LeftOf(v) == <<v[2], -v[1]>>

RightOf(v) == <<-v[2], v[1]>>

\* This step invoked the closure; Handed is what it was invoked with and
\* Nth counts the outputs handed over so far, this one included.
Invoked == Len(iolog') = Len(iolog) + 1

Handed == iolog'[Len(iolog')]

Nth == Cardinality({ i \in 1..Len(iolog') : iolog'[i].io = "Output" })

Painted(value) ==
    /\ DOMAIN robot'.map = (DOMAIN robot.map) \cup {robot.pos}
    /\ robot'.map[robot.pos] = (value = 1)
    /\ \A p \in (DOMAIN robot.map) \ {robot.pos} : robot'.map[p] = robot.map[p]
    /\ robot'.pos = robot.pos
    /\ robot'.dir = robot.dir

TurnedAndMoved(value) ==
    /\ robot'.map = robot.map
    /\ Heading(robot'.dir) = IF value = 0 THEN LeftOf(Heading(robot.dir))
                                          ELSE RightOf(Heading(robot.dir))
    /\ robot'.pos = <<robot.pos[1] + Heading(robot'.dir)[1],
                      robot.pos[2] + Heading(robot'.dir)[2]>>

C37_RobotAlternatesPaintAndMove ==
    /\ [](status # "Poll" /\ cursor # "panicked")
    /\ [][Invoked =>
            /\ Handed.io = "Input" =>
                  /\ Handed.ret = Some(IF robot.pos \in DOMAIN robot.map
                                       THEN (IF robot.map[robot.pos] THEN 1 ELSE 0)
                                       ELSE 0)
                  /\ robot' = robot
            /\ Handed.io = "Output" /\ Handed.arg \notin {0, 1} =>
                  status' = "fault" /\ robot' = robot /\ pc' = pc
            /\ Handed.io = "Output" /\ Handed.arg \in {0, 1} =>
                  /\ status' = "running"
                  /\ Nth % 2 = 1 => Painted(Handed.arg)
                  /\ Nth % 2 = 0 => TurnedAndMoved(Handed.arg)]_vars

\* The robot has painted its start cell white, turned left and moved, painted
\* black, turned right and moved, read the colour 0 of a cell never painted,
\* painted it black; run has returned Halt.
C37_Witness ==
    /\ prog = <<104, 1, 104, 0, 104, 0, 104, 1, 3, 0, 4, 0, 99>>
    /\ cursor = "returned"
    /\ status = "Halt"
    /\ Len(iolog) = 6
    /\ iolog[5] = IoInput(Some(0))
    /\ robot.pos = <<-1, -1>>
    /\ robot.dir = "Up"
    /\ robot.map = (<<0, 0>> :> TRUE) @@ (<<-1, 0>> :> FALSE) @@ (<<-1, -1>> :> FALSE)
    /\ result = robot.map

----------------------------------------------------------------------------
(* C38: for every password of the bounded range, validate2 returns true if *)
(* and only if its decimal digits never decrease from left to right and    *)
(* some digit stands in a run of exactly two adjacent equal digits; a run  *)
(* of three or more equal digits does not count by itself.  112233 is      *)
(* accepted, 123444 and 589999 are rejected.                               *)

\* The decimal digits of n from left to right; 0 has none.
RECURSIVE Written(_)
Written(n) == IF n = 0 THEN <<>> ELSE Append(Written(n \div 10), n % 10)

NeverDecreases(ds) == \A i \in 1..(Len(ds) - 1) : ds[i] <= ds[i + 1]

\* The maximal run of equal digits that begins at i has length two.
RunOfTwoAt(ds, i) ==
    /\ i + 1 <= Len(ds)
    /\ ds[i] = ds[i + 1]
    /\ i > 1 => ds[i - 1] # ds[i]
    /\ i + 2 <= Len(ds) => ds[i + 2] # ds[i]

HasRunOfExactlyTwo(ds) == \E i \in 1..Len(ds) : RunOfTwoAt(ds, i)

C38_Validate2ExactlyTwo ==
    cursor = "returned" =>
        /\ result = (NeverDecreases(Written(password))
                        /\ HasRunOfExactlyTwo(Written(password)))
        /\ password = 112233 => result
        /\ password \in {123444, 589999} => ~result

\* 112233 has been accepted.
C38_Witness == cursor = "returned" /\ password = 112233 /\ result = TRUE

====
